---- MODULE Spec2Model ----
(***************************************************************************)
(* Supplier notification pipeline: the `notifications` document collection *)
(* as used by NotificationService (services/notificationService.ts), the   *)
(* live listeners of the useNotifications hook (hooks/useNotifications.ts) *)
(* and the sorted view of the EnhancedNotifications page.                  *)
(*                                                                         *)
(* Text is modelled as a sequence of fragments (each a TLA+ string): a     *)
(* template literal is the concatenation of its fragments, and "contains"  *)
(* is "has this contiguous run of fragments".  An ISO timestamp is the     *)
(* one-element tuple <<t>> of the clock value it was formatted from; a     *)
(* missing property reads as Undefined (strings) or NoDate (timestamps).   *)
(***************************************************************************)
EXTENDS Integers, Sequences, FiniteSets, TLC

VARIABLES
    store,          \* the documents of the `notifications` collection
    usedIds,        \* document ids the store has handed out so far
    now,            \* the wall clock read by new Date()
    inflight,       \* a markAllAsRead call between its getDocs and its batch.commit
    last,           \* the last service call that settled, and how
    hookFid,        \* the fournisseurId the hook is mounted with (NoFid: not mounted)
    effectGen,      \* which run of the hook's listener effect is current (0: none yet)
    listeners,      \* the onSnapshot registrations the store still serves
    pending,        \* snapshot events dispatched by the store, not yet delivered
    hookState,      \* the hook's React state fed by the listeners
    lateCalls,      \* callback invocations made after the effect's cleanup returned
    notifications,  \* EnhancedNotifications: the fetched list
    searchTerm,     \* EnhancedNotifications: the search box
    sortBy,         \* EnhancedNotifications: the sort selector
    isInitialized,  \* SupplierEmailService: emailjs.init has succeeded
    initializeCalls,\* how often initialize() has been called
    initCalls,      \* how often emailjs.init has been called
    calls,          \* the sendOrderNotification calls made so far, and how each settled
    sends,          \* the emailjs.send calls made so far, and how each settled
    bulk,           \* the sendBulkOrderNotifications call, its calls and its result
    loading,        \* the hook's loading flag
    error,          \* the hook's error string (Null: none)
    awaits,         \* the hook's asynchronous calls that have not resumed yet
    settled,        \* how the hook operation that resumed last settled for its caller
    permission,     \* Notification.permission
    shown           \* the browser notifications constructed so far

storeVars == <<store, usedIds, now, inflight, last>>
hookVars  == <<hookFid, effectGen, listeners, pending, hookState, lateCalls>>
viewVars  == <<notifications, searchTerm, sortBy>>
emailVars == <<isInitialized, initializeCalls, initCalls, calls, sends, bulk>>
useVars   == <<loading, error, awaits, settled, permission, shown>>
vars      == <<store, usedIds, now, inflight, last, hookFid, effectGen, listeners,
               pending, hookState, lateCalls, notifications, searchTerm, sortBy,
               isInitialized, initializeCalls, initCalls, calls, sends, bulk,
               loading, error, awaits, settled, permission, shown>>

(***************************************************************************)
(* Bounds of the model.                                                    *)
(***************************************************************************)
MaxDocs == 2
MaxTime == 1
MaxPending == 2
MaxMounts == 2
MaxListLen == 3
MaxInitializeCalls == 3
MaxEmailCalls == 2
MaxFetches == 2
MaxOps == 1

Suppliers == {"S1", "S2"}
DocIds    == 1..MaxDocs
NoFid     == "none"
Undefined == "undefined"
NoDate    == <<>>
None      == [op |-> "none"]
Null      == "null"

\* new Date().toISOString() / new Date(s).getTime()
ToISOString(t) == <<t>>
GetTime(s) == s[1]

\* obj.field, reading a property the object does not have
Get(obj, field) == IF field \in DOMAIN obj THEN obj[field] ELSE Undefined

\* notification.data?.field
DataGet(notification, field) ==
    IF "data" \in DOMAIN notification THEN Get(notification.data, field) ELSE Undefined

RECURSIVE SeqOfSet(_)
SeqOfSet(S) ==
    IF S = {} THEN <<>>
    ELSE LET x == CHOOSE y \in S : TRUE IN <<x>> \o SeqOfSet(S \ {x})

(***************************************************************************)
(* The document store: queries and atomic write batches.                   *)
(***************************************************************************)

\* where(field, '==', value)
Where(docs, field, value) == {d \in docs : Get(d, field) = value}

\* a document comes before another under orderBy('createdAt', 'desc'); equal
\* timestamps fall back to the document name, in the same direction
Before(a, b) ==
    \/ GetTime(a.createdAt) > GetTime(b.createdAt)
    \/ GetTime(a.createdAt) = GetTime(b.createdAt) /\ a.id > b.id

RECURSIVE OrderByCreatedAtDesc(_)
OrderByCreatedAtDesc(docs) ==
    IF docs = {} THEN <<>>
    ELSE LET first == CHOOSE d \in docs : \A e \in docs \ {d} : Before(d, e)
         IN  <<first>> \o OrderByCreatedAtDesc(docs \ {first})

\* a query without its limit
LimitNone(s, n) == s

\* limit(n)
Limit(s, n) == IF Len(s) <= n THEN s ELSE SubSeq(s, 1, n)

Range(s) == {s[i] : i \in DOMAIN s}
DocById(docs, id) == CHOOSE d \in docs : d.id = id
Exists(docs, id) == \E d \in docs : d.id = id

\* a mark-read payload that stamps readAt and leaves isRead as it is
ReadPatchStampOnly(t) == [readAt |-> ToISOString(t)]

\* updateDoc / batch.update payload of the three mark-read operations
ReadPatch(t) == [isRead |-> TRUE, readAt |-> ToISOString(t)]

\* a merge that also hands the document to supplier S2
PatchedReparent(d, patch) ==
    [f \in DOMAIN d \cup DOMAIN patch |->
        IF f = "fournisseurId" THEN "S2"
        ELSE IF f \in DOMAIN patch THEN patch[f] ELSE d[f]]

\* merge of an update payload into a document
Patched(d, patch) ==
    [f \in DOMAIN d \cup DOMAIN patch |-> IF f \in DOMAIN patch THEN patch[f] ELSE d[f]]

\* A write batch is a set of writes [kind, id, patch].  An update of a missing
\* document fails the whole commit; deletes never fail.
BatchCanCommit(docs, writes) ==
    \A w \in writes : w.kind = "update" => Exists(docs, w.id)

BatchPartialApply(docs, writes) ==
    {IF \E w \in writes : w.kind = "update" /\ w.id = d.id
        THEN Patched(d, (CHOOSE w \in writes : w.kind = "update" /\ w.id = d.id).patch)
        ELSE d
     : d \in {e \in docs : ~\E w \in writes : w.kind = "delete" /\ w.id = e.id}}

\* a commit that applies each write on its own and skips those that fail
BatchApplyEach(docs, writes) == BatchPartialApply(docs, writes)

BatchApply(docs, writes) ==
    IF BatchCanCommit(docs, writes) THEN BatchPartialApply(docs, writes) ELSE docs

(***************************************************************************)
(* Sample orders (models/index.ts, Order), one per supplier.  total is in  *)
(* cents; toFixed(2) renders it as euros "." cents.                        *)
(***************************************************************************)
OrderOf(fid) ==
    [id              |-> IF fid = "S1" THEN "ord-S1-00000001" ELSE "ord-S2-00000002",
     fournisseurId   |-> fid,
     userName        |-> "Test Customer",
     userEmail       |-> "test@example.com",
     userPhone       |-> "+21600000000",
     total           |-> 3359,
     status          |-> "pending",
     paymentStatus   |-> "pending",
     paymentMethod   |-> "cash",
     deliveryAddress |-> "1 rue A, Tunis",
     orderNotes      |-> "",
     items           |-> <<[productName |-> "P", quantity |-> 1, unitPrice |-> 3359,
                            totalPrice |-> 3359]>>]

Orders == {OrderOf(fid) : fid \in Suppliers}

\* subOrder.id.slice(-8) on the sample ids
SliceLast8(id) == IF id = "ord-S1-00000001" THEN "00000001" ELSE "00000002"

\* n.toFixed(2)
ToFixed2(cents) ==
    <<ToString(cents \div 100), ".",
      IF cents % 100 < 10 THEN "0" ELSE "", ToString(cents % 100)>>

(***************************************************************************)
(* Notification factory (NotificationService.createSupplier*Notification). *)
(***************************************************************************)
KnownPaymentStatuses == {"paid", "failed", "pending", "refunded"}

\* a switch whose default branch does not return
PaymentStatusHandledAll(newStatus) == TRUE

\* the switch of createSupplierPaymentNotification: does newStatus reach a case
\* that builds a text (TRUE), or the default branch that returns (FALSE)
PaymentStatusHandled(newStatus) == newStatus \in KnownPaymentStatuses

PaymentText(subOrder, newStatus) ==
    CASE newStatus = "paid" ->
           [title   |-> <<"Paiement ", "recu", "! ", "(money-bag)">>,
            message |-> <<"Le paiement de EUR">> \o ToFixed2(subOrder.total)
                        \o <<" a ete recu pour la commande #", SliceLast8(subOrder.id),
                             " de ", subOrder.userName>>,
            emoji   |-> "(money-bag)"]
      [] newStatus = "failed" ->
           [title   |-> <<"Paiement ", "echoue", " ", "(cross)">>,
            message |-> <<"Le paiement a echoue pour la commande #",
                          SliceLast8(subOrder.id), " de ", subOrder.userName,
                          ". Veuillez contacter le client.">>,
            emoji   |-> "(cross)"]
      [] newStatus = "pending" ->
           [title   |-> <<"Paiement ", "en attente", " ", "(hourglass)">>,
            message |-> <<"Le paiement est en attente pour la commande #",
                          SliceLast8(subOrder.id), " de ", subOrder.userName>>,
            emoji   |-> "(hourglass)"]
      [] newStatus = "refunded" ->
           [title   |-> <<"Paiement ", "rembourse", " ", "(money-wings)">>,
            message |-> <<"Le paiement de EUR">> \o ToFixed2(subOrder.total)
                        \o <<" a ete rembourse pour la commande #",
                             SliceLast8(subOrder.id), " de ", subOrder.userName>>,
            emoji   |-> "(money-wings)"]
      [] OTHER -> [title |-> <<>>, message |-> <<>>, emoji |-> ""]

PaymentNotification(subOrder, oldStatus, newStatus) ==
    LET text == PaymentText(subOrder, newStatus) IN
    [type          |-> "payment",
     title         |-> text.title,
     message       |-> text.message,
     orderId       |-> subOrder.id,
     fournisseurId |-> subOrder.fournisseurId,
     isRead        |-> FALSE,
     data          |-> [customerName     |-> subOrder.userName,
                        customerEmail    |-> subOrder.userEmail,
                        orderTotal       |-> subOrder.total,
                        oldPaymentStatus |-> oldStatus,
                        newPaymentStatus |-> newStatus,
                        paymentMethod    |-> subOrder.paymentMethod,
                        emoji            |-> text.emoji]]

OrderNotification(subOrder) ==
    [type          |-> "order",
     title         |-> <<"Nouvelle commande ", "recue", "! ", "(shopping-bags)">>,
     message       |-> <<"Vous avez recu une nouvelle commande de ", subOrder.userName,
                         " d'un montant de EUR">> \o ToFixed2(subOrder.total)
                       \o <<". La commande contient ", ToString(Len(subOrder.items)),
                            " article(s).">>,
     orderId       |-> subOrder.id,
     fournisseurId |-> subOrder.fournisseurId,
     isRead        |-> FALSE,
     data          |-> [customerName    |-> subOrder.userName,
                        customerEmail   |-> subOrder.userEmail,
                        customerPhone   |-> subOrder.userPhone,
                        orderTotal      |-> subOrder.total,
                        itemCount       |-> Len(subOrder.items),
                        orderStatus     |-> subOrder.status,
                        paymentStatus   |-> subOrder.paymentStatus,
                        paymentMethod   |-> subOrder.paymentMethod,
                        deliveryAddress |-> subOrder.deliveryAddress,
                        orderNotes      |-> subOrder.orderNotes,
                        items           |-> subOrder.items]]

OrderStatuses ==
    {"pending", "confirmed", "preparing", "out_for_delivery", "delivered", "cancelled"}

\* statusMessages[newStatus]: a property read on an object literal.  A key the
\* literal does not define is looked up on Object.prototype, where "constructor"
\* finds the Object function; the value is kept as the text a template literal
\* renders it to.  Any other missing key reads as Undefined.
statusMessages(newStatus) ==
    CASE newStatus = "pending"          -> "en attente"
      [] newStatus = "confirmed"        -> "confirmee"
      [] newStatus = "preparing"        -> "en preparation"
      [] newStatus = "out_for_delivery" -> "en livraison"
      [] newStatus = "delivered"        -> "livree"
      [] newStatus = "cancelled"        -> "annulee"
      [] newStatus = "constructor"      -> "function Object() { [native code] }"
      [] OTHER                          -> Undefined

\* statusMessages[newStatus] || newStatus
StatusMessage(newStatus) ==
    IF statusMessages(newStatus) \in {Undefined, ""}
    THEN newStatus ELSE statusMessages(newStatus)

OrderStatusNotification(subOrder, oldStatus, newStatus) ==
    [type          |-> "order",
     title         |-> <<"Statut de commande mis a jour">>,
     message       |-> <<"La commande de ", subOrder.userName, " est maintenant ",
                         StatusMessage(newStatus), ".">>,
     orderId       |-> subOrder.id,
     fournisseurId |-> subOrder.fournisseurId,
     isRead        |-> FALSE,
     data          |-> [customerName |-> subOrder.userName,
                        orderTotal   |-> subOrder.total,
                        oldStatus    |-> oldStatus,
                        newStatus    |-> newStatus,
                        orderStatus  |-> newStatus]]

\* an optional data argument that was not passed
NoData == <<>>
IsUndefinedData(data) == DOMAIN data = {}

\* the record createSystemNotification builds: data as passed
SystemNotification(fournisseurId, title, message, data) ==
    [type          |-> "system",
     title         |-> title,
     message       |-> message,
     fournisseurId |-> fournisseurId,
     isRead        |-> FALSE,
     data          |-> data]

\* the record createProductNotification builds: data is { productId, ...data }
ProductNotification(fournisseurId, title, message, productId, data) ==
    [type          |-> "product",
     title         |-> title,
     message       |-> message,
     fournisseurId |-> fournisseurId,
     isRead        |-> FALSE,
     data          |-> data @@ [productId |-> productId]]

\* the record holds an undefined value: its data, or data.productId
HasUndefined(notification) ==
    \/ IsUndefinedData(notification.data)
    \/ Get(notification.data, "productId") = Undefined

\* the record as a store that ignores undefined properties writes it
WithoutUndefined(notification) ==
    IF IsUndefinedData(notification.data)
    THEN [f \in DOMAIN notification \ {"data"} |-> notification[f]]
    ELSE IF Get(notification.data, "productId") = Undefined
    THEN [notification EXCEPT !.data =
            [f \in DOMAIN notification.data \ {"productId"} |-> notification.data[f]]]
    ELSE notification

\* a priority that ignores the payload
getNotificationPriorityByTypeOnly(notification) ==
    CASE notification.type = "order"   -> "high"
      [] notification.type = "payment" -> "medium"
      [] notification.type = "system"  -> "medium"
      [] OTHER                         -> "low"

\* NotificationService.getNotificationPriority
getNotificationPriority(notification) ==
    CASE notification.type = "order"   -> "high"
      [] notification.type = "payment" ->
           IF DataGet(notification, "newPaymentStatus") = "failed"
           THEN "high" ELSE "medium"
      [] notification.type = "system"  -> "medium"
      [] notification.type = "product" -> "low"
      [] OTHER                         -> "low"

(***************************************************************************)
(* Text helpers: toLowerCase and includes, fragment by fragment.           *)
(***************************************************************************)
LowerFragment(f) ==
    CASE f = "Paiement "          -> "paiement "
      [] f = "Test Customer"      -> "test customer"
      [] f = "Nouvelle commande " -> "nouvelle commande "
      [] f = "La commande de "    -> "la commande de "
      [] f = "Le paiement de EUR" -> "le paiement de eur"
      [] f = "New "               -> "new "
      [] f = "Order"              -> "order"
      [] f = "Payment "           -> "payment "
      [] f = "Received"           -> "received"
      [] f = "ORDER"              -> "order"
      [] f = "PAIEMENT "          -> "paiement "
      [] f = "TEST CUSTOMER"      -> "test customer"
      [] OTHER                    -> f

ToLowerCase(s) == [i \in DOMAIN s |-> LowerFragment(s[i])]

Includes(s, t) ==
    \E i \in 1..(Len(s) + 1) :
        /\ i + Len(t) - 1 <= Len(s)
        /\ \A j \in 1..Len(t) : s[i + j - 1] = t[j]

\* a term filter that looks at the title alone
MatchesTitleOnly(n, lowerTerm) == Includes(ToLowerCase(n.title), lowerTerm)

\* title.toLowerCase().includes(term) || message.toLowerCase().includes(term)
MatchesTerm(n, lowerTerm) ==
    \/ Includes(ToLowerCase(n.title), lowerTerm)
    \/ Includes(ToLowerCase(n.message), lowerTerm)

(***************************************************************************)
(* NotificationService: reads.                                             *)
(***************************************************************************)
DefaultLimit == 50
SubscriptionLimit == 50
DayMs == 86400000
DefaultDaysOld == 30

\* where fournisseurId == .., orderBy createdAt desc, limit ..
ListQuery(docs, fournisseurId, limitCount) ==
    Limit(OrderByCreatedAtDesc(Where(docs, "fournisseurId", fournisseurId)), limitCount)

\* lastNotificationId is a parameter the body never reads
getNotificationsByFournisseur(fournisseurId, limitCount, lastNotificationId) ==
    ListQuery(store, fournisseurId, limitCount)

\* the typed branch of the search query without its fournisseurId filter
SearchQueryUnscoped(fournisseurId, type) ==
    IF type \notin {Undefined, "", "all"}
    THEN Where(store, "type", type)
    ELSE Where(store, "fournisseurId", fournisseurId)

\* the query of searchNotifications, before the client-side term filter
SearchQuery(fournisseurId, type) ==
    IF type \notin {Undefined, "", "all"}
    THEN Where(Where(store, "fournisseurId", fournisseurId), "type", type)
    ELSE Where(store, "fournisseurId", fournisseurId)

searchNotifications(fournisseurId, term, type) ==
    LET found == OrderByCreatedAtDesc(SearchQuery(fournisseurId, type)) IN
    IF term # <<>>
    THEN SelectSeq(found, LAMBDA n : MatchesTerm(n, ToLowerCase(term)))
    ELSE found

\* the unread query without its isRead filter
UnreadQueryAll(docs, fournisseurId) == Where(docs, "fournisseurId", fournisseurId)

\* the query of getUnreadCount, subscribeToUnreadCount and markAllAsRead
UnreadQuery(docs, fournisseurId) ==
    Where(Where(docs, "fournisseurId", fournisseurId), "isRead", FALSE)

getUnreadCount(fournisseurId) == Cardinality(UnreadQuery(store, fournisseurId))

getNotificationStats(fournisseurId) ==
    LET found == Where(store, "fournisseurId", fournisseurId)
        yesterday == now - DayMs
    IN  [total  |-> Cardinality(found),
         unread |-> Cardinality({n \in found : ~n.isRead}),
         byType |-> [t \in {n.type : n \in found} |->
                        Cardinality({n \in found : n.type = t})],
         recent |-> Cardinality({n \in found : GetTime(n.createdAt) > yesterday})]

(***************************************************************************)
(* NotificationService: writes, against a store that is reachable.  Every  *)
(* call settles in `last`: resolved (ok), or rejected by the store because *)
(* an updated document does not exist.                                     *)
(***************************************************************************)
\* fid: the supplier a call names (NoFid for a call that names documents)
Settled(op, fid, ok) == [op |-> op, fid |-> fid, ok |-> ok]

\* a creation that stores what it is given as already read
createNotificationAsRead(notification, op) ==
    /\ \E id \in DocIds \ usedIds :
         /\ store' = store \cup
              {[id |-> id, createdAt |-> ToISOString(now)]
                 @@ [notification EXCEPT !.isRead = TRUE]}
         /\ usedIds' = usedIds \cup {id}
    /\ last' = Settled(op, notification.fournisseurId, TRUE)
    /\ UNCHANGED <<now, inflight>>

\* addDoc: the store names the document, the service stamps createdAt
createNotification(notification, op) ==
    /\ \E id \in DocIds \ usedIds :
         /\ store' = store \cup
              {[id |-> id, createdAt |-> ToISOString(now)] @@ notification}
         /\ usedIds' = usedIds \cup {id}
    /\ last' = Settled(op, notification.fournisseurId, TRUE)
    /\ UNCHANGED <<now, inflight>>

createSupplierOrderNotification(subOrder) ==
    createNotification(OrderNotification(subOrder), "createSupplierOrderNotification")

createSupplierPaymentNotification(subOrder, oldStatus, newStatus) ==
    IF PaymentStatusHandled(newStatus)
    THEN createNotification(PaymentNotification(subOrder, oldStatus, newStatus),
                            "createSupplierPaymentNotification")
    ELSE /\ last' = Settled("createSupplierPaymentNotification",
                            subOrder.fournisseurId, TRUE)
         /\ UNCHANGED <<store, usedIds, now, inflight>>

createSupplierOrderStatusNotification(subOrder, oldStatus, newStatus) ==
    createNotification(OrderStatusNotification(subOrder, oldStatus, newStatus),
                       "createSupplierOrderStatusNotification")

\* addDoc of a record: one that holds an undefined value is rejected by the
\* store, unless the store was set up with ignoreUndefinedProperties (set where
\* db is built), which drops such properties
addDoc(notification, op, ignoreUndefinedProperties) ==
    IF HasUndefined(notification) /\ ~ignoreUndefinedProperties
    THEN /\ last' = Settled(op, notification.fournisseurId, FALSE)
         /\ UNCHANGED <<store, usedIds, now, inflight>>
    ELSE createNotification(WithoutUndefined(notification), op)

createSystemNotification(fournisseurId, title, message, data, ignoreUndefinedProperties) ==
    addDoc(SystemNotification(fournisseurId, title, message, data),
           "createSystemNotification", ignoreUndefinedProperties)

createProductNotification(fournisseurId, title, message, productId, data, ignoreUndefinedProperties) ==
    addDoc(ProductNotification(fournisseurId, title, message, productId, data),
           "createProductNotification", ignoreUndefinedProperties)

ReadWrites(ids, t) == {[kind |-> "update", id |-> id, patch |-> ReadPatch(t)] : id \in ids}
\* a delete that is never sent
DeleteWritesNone(ids) == {}

DeleteWrites(ids) == {[kind |-> "delete", id |-> id] : id \in ids}

\* batch.commit() / updateDoc / deleteDoc of `writes`
Commit(writes, op) ==
    /\ store' = BatchApply(store, writes)
    /\ last' = Settled(op, NoFid, BatchCanCommit(store, writes))
    /\ UNCHANGED <<usedIds, now, inflight>>

\* a markAsRead that marks a read notification unread again
markAsReadToggle(notificationId) ==
    Commit({[kind |-> "update", id |-> notificationId,
             patch |-> IF Exists(store, notificationId)
                          /\ DocById(store, notificationId).isRead
                       THEN [isRead |-> FALSE, readAt |-> NoDate]
                       ELSE ReadPatch(now)]}, "markAsRead")

markAsRead(notificationId) ==
    Commit(ReadWrites({notificationId}, now), "markAsRead")

markMultipleAsRead(notificationIds) ==
    Commit(ReadWrites(notificationIds, now), "markMultipleAsRead")

deleteNotification(notificationId) ==
    Commit(DeleteWrites({notificationId}), "deleteNotification")

deleteMultipleNotifications(notificationIds) ==
    Commit(DeleteWrites(notificationIds), "deleteMultipleNotifications")

\* snapshot.docs of markAllAsRead's query, by id
MarkAllSnapshot(docs, fournisseurId) == {d.id : d \in UnreadQuery(docs, fournisseurId)}

\* markAllAsRead up to its first await: getDocs of the unread query
markAllAsReadQuery(fournisseurId) ==
    /\ inflight = None
    /\ inflight' = [op  |-> "markAllAsRead", fid |-> fournisseurId,
                    ids |-> MarkAllSnapshot(store, fournisseurId)]
    /\ UNCHANGED <<store, usedIds, now, last>>

\* markAllAsRead after getDocs resolved: one batch.update per snapshot document,
\* then batch.commit()
markAllAsReadCommit ==
    /\ inflight.op = "markAllAsRead"
    /\ store' = BatchApply(store, ReadWrites(inflight.ids, now))
    /\ last' = Settled("markAllAsRead", inflight.fid,
                       BatchCanCommit(store, ReadWrites(inflight.ids, now)))
    /\ inflight' = None
    /\ UNCHANGED <<usedIds, now>>

\* cutoffDate: new Date() moved back by daysOld days, kept as the instant it
\* was taken at and the number of days
CutoffDate(t, daysOld) == [from |-> t, daysOld |-> daysOld]

\* a comparison that also takes the documents created at the cutoff itself
IsBeforeCutoffInclusive(createdAt, cutoffDate) ==
    LET age == cutoffDate.from - GetTime(createdAt) IN
    age \div DayMs >= cutoffDate.daysOld

\* createdAt < cutoffDate.toISOString(): the document was more than daysOld days
\* old when cutoffDate was taken.  Stated on the document's age in whole days and
\* the rest, which is the same comparison.
IsBeforeCutoff(createdAt, cutoffDate) ==
    LET age == cutoffDate.from - GetTime(createdAt) IN
    \/ age \div DayMs > cutoffDate.daysOld
    \/ age \div DayMs = cutoffDate.daysOld /\ age % DayMs > 0

\* a cleanup query without its fournisseurId filter
CleanupSnapshotEverySupplier(docs, fournisseurId, cutoffDate) ==
    {d.id : d \in {e \in docs : IsBeforeCutoff(e.createdAt, cutoffDate)}}

\* snapshot.docs of the cleanup query, by id: the supplier's notifications
\* created before the cutoff
CleanupSnapshot(docs, fournisseurId, cutoffDate) ==
    {d.id : d \in {e \in Where(docs, "fournisseurId", fournisseurId) :
                      IsBeforeCutoff(e.createdAt, cutoffDate)}}

\* cleanupOldNotifications up to its first await: getDocs of the cutoff query
cleanupOldNotificationsQuery(fournisseurId, daysOld) ==
    /\ inflight = None
    /\ inflight' = [op  |-> "cleanupOldNotifications", fid |-> fournisseurId,
                    cutoffDate |-> CutoffDate(now, daysOld),
                    ids |-> CleanupSnapshot(store, fournisseurId, CutoffDate(now, daysOld))]
    /\ UNCHANGED <<store, usedIds, now, last>>

\* a call that resolved with a value
Returned(op, fid, value) == [op |-> op, fid |-> fid, ok |-> TRUE, value |-> value]

\* cleanupOldNotifications after getDocs resolved: one batch.delete per snapshot
\* document, then batch.commit(), then return snapshot.size
cleanupOldNotificationsCommit ==
    /\ inflight.op = "cleanupOldNotifications"
    /\ store' = BatchApply(store, DeleteWrites(inflight.ids))
    /\ last' = Returned("cleanupOldNotifications", inflight.fid, Cardinality(inflight.ids))
    /\ inflight' = None
    /\ UNCHANGED <<usedIds, now>>

Tick ==
    /\ now < MaxTime
    /\ now' = now + 1
    /\ UNCHANGED <<store, usedIds, inflight, last>>

(***************************************************************************)
(* SupplierEmailService: the email dispatcher over the EmailJS provider.   *)
(* A function body runs to a completion, [kind |-> "return", value |-> v]  *)
(* or [kind |-> "throw"], or to the emailjs.send call it then awaits,      *)
(* [kind |-> "send", params |-> ..].                                       *)
(***************************************************************************)
Return(v) == [kind |-> "return", value |-> v]
Throw == [kind |-> "throw"]

\* a property inherited from Object.prototype: truthy, with no message of its own
Inherited == "inherited"

\* a template table that falls back to the new-order template
TemplatesWithDefault(status) ==
    CASE status = "pending"          -> "new_order"
      [] status = "confirmed"        -> "order_confirmed"
      [] status = "preparing"        -> "order_preparing"
      [] status = "out_for_delivery" -> "order_shipped"
      [] status = "delivered"        -> "order_delivered"
      [] status = "cancelled"        -> "order_cancelled"
      [] OTHER                       -> "new_order"

\* ORDER_STATUS_TEMPLATES[status] as far as the dispatcher reads it: the
\* template's type, Inherited for a key found on Object.prototype, Undefined for
\* a key found nowhere
ORDER_STATUS_TEMPLATES(status) ==
    CASE status = "pending"          -> "new_order"
      [] status = "confirmed"        -> "order_confirmed"
      [] status = "preparing"        -> "order_preparing"
      [] status = "out_for_delivery" -> "order_shipped"
      [] status = "delivered"        -> "order_delivered"
      [] status = "cancelled"        -> "order_cancelled"
      [] status = "constructor"      -> Inherited
      [] OTHER                       -> Undefined

\* the order statuses the dispatcher is called with: two with a template, one
\* without, one found on Object.prototype
EmailStatusInputs == {"pending", "delivered", "archived", "constructor"}

\* the orders the dispatcher is called with: the sample order of S1 in each
\* status, and a pending one that arrives without its deliveryAddress
EmailOrders ==
    {[OrderOf("S1") EXCEPT !.status = st] : st \in EmailStatusInputs}
       \cup {[f \in DOMAIN OrderOf("S1") \ {"deliveryAddress"} |-> OrderOf("S1")[f]]}

\* order.id.slice(-8).toUpperCase() on the sample ids
OrderNumber(order) == SliceLast8(order.id)

\* getSupplierEmail: a fixed placeholder address
getSupplierEmail(supplierId) == "supplier@example.com"

\* the templateParams object, as far as it tells the sends apart
TemplateParams(order, templateType) ==
    [to_email    |-> getSupplierEmail(order.fournisseurId),
     order_id    |-> OrderNumber(order),
     status      |-> order.status,
     status_type |-> templateType,
     order_total |-> ToFixed2(order.total),
     item_count  |-> Len(order.items)]

\* the try block of sendOrderNotification up to its await: no template returns
\* false; template.message.replace throws on a template without a message, and
\* formatDeliveryAddress on an order without an address; else emailjs.send is called
TryBody(order) ==
    LET template == ORDER_STATUS_TEMPLATES(order.status) IN
    IF template = Undefined THEN Return(FALSE)
    ELSE IF template = Inherited THEN Throw
    ELSE IF "deliveryAddress" \notin DOMAIN order THEN Throw
    ELSE [kind |-> "send", params |-> TemplateParams(order, template)]

\* a try block whose catch lets the exception through
CatchRethrow(outcome) == outcome

\* catch (error) { console.error(..); return false; }
Catch(outcome) == IF outcome.kind = "throw" THEN Return(FALSE) ELSE outcome

\* sendOrderNotification up to its first await
Start(initialized, order) ==
    IF ~initialized THEN Return(FALSE) ELSE Catch(TryBody(order))

\* sendOrderNotification after its await: emailjs.send resolved, or rejected
Resume(state) == Catch(IF state = "resolved" THEN Return(TRUE) ELSE Throw)

\* how the promise of a sendOrderNotification call settles on a completion
Settlement(outcome) ==
    IF outcome.kind = "throw" THEN "rejected"
    ELSE IF outcome.value THEN "true" ELSE "false"

\* one sendOrderNotification(order) call added to what has been called so far:
\* st is [calls, sends], inBulk whether sendBulkOrderNotifications makes the call
Called(st, order, inBulk) ==
    LET outcome == Start(isInitialized, order) IN
    IF outcome.kind = "send"
    THEN [calls |-> Append(st.calls, [order |-> order, inBulk |-> inBulk,
                                      send |-> Len(st.sends) + 1, result |-> "pending"]),
          sends |-> Append(st.sends, [params |-> outcome.params, state |-> "pending"])]
    ELSE [calls |-> Append(st.calls, [order |-> order, inBulk |-> inBulk,
                                      send |-> 0, result |-> Settlement(outcome)]),
          sends |-> st.sends]

\* orders.map(order => this.sendOrderNotification(order)): the calls are made
\* one after the other, each up to its first await
RECURSIVE CalledAll(_, _)
CalledAll(st, orders) ==
    IF orders = <<>> THEN st
    ELSE CalledAll(Called(st, Head(orders), TRUE), Tail(orders))

NoBulk == [state |-> "none"]

\* a join that fails as soon as one order's result is false
JoinFailFast(results) ==
    IF \E i \in DOMAIN results : results[i] # "true"
    THEN [i \in DOMAIN results |-> FALSE]
    ELSE [i \in DOMAIN results |-> TRUE]

\* results.map(result => result.status === 'fulfilled' ? result.value : false)
Join(results) == [i \in DOMAIN results |-> results[i] = "true"]

InitEmail ==
    /\ isInitialized = FALSE
    /\ initializeCalls = 0
    /\ initCalls = 0
    /\ calls = <<>>
    /\ sends = <<>>
    /\ bulk = NoBulk

\* an initialize that calls the provider every time
initializeAlways(initThrows) ==
    /\ initializeCalls < MaxInitializeCalls
    /\ initializeCalls' = initializeCalls + 1
    /\ initCalls' = initCalls + 1
    /\ isInitialized' = (isInitialized \/ ~initThrows)
    /\ UNCHANGED <<calls, sends, bulk>>

\* initialize(); initThrows: whether emailjs.init throws if it is called
initialize(initThrows) ==
    /\ initializeCalls < MaxInitializeCalls
    /\ initializeCalls' = initializeCalls + 1
    /\ IF isInitialized
       THEN UNCHANGED <<initCalls, isInitialized>>
       ELSE /\ initCalls' = initCalls + 1
            /\ isInitialized' = ~initThrows
    /\ UNCHANGED <<calls, sends, bulk>>

\* sendOrderNotification(order), called on its own, up to its first await
sendOrderNotification(order) ==
    /\ Len(calls) < MaxEmailCalls
    /\ LET st == Called([calls |-> calls, sends |-> sends], order, FALSE) IN
         calls' = st.calls /\ sends' = st.sends
    /\ UNCHANGED <<isInitialized, initializeCalls, initCalls, bulk>>

\* sendBulkOrderNotifications(orders) up to its await of Promise.allSettled
sendBulkOrderNotifications(orders) ==
    /\ bulk = NoBulk
    /\ Len(calls) + Len(orders) <= MaxEmailCalls
    /\ LET st == CalledAll([calls |-> calls, sends |-> sends], orders) IN
         /\ calls' = st.calls
         /\ sends' = st.sends
         /\ bulk' = [state |-> "pending",
                     ids   |-> [i \in 1..Len(orders) |-> Len(calls) + i]]
    /\ UNCHANGED <<isInitialized, initializeCalls, initCalls>>

\* the provider settles the emailjs.send call i, and the sendOrderNotification
\* call that awaits it runs to its end
ProviderSettles(i, state) ==
    /\ i \in DOMAIN sends
    /\ sends[i].state = "pending"
    /\ sends' = [sends EXCEPT ![i].state = state]
    /\ calls' = [c \in DOMAIN calls |->
                   IF calls[c].send = i
                   THEN [calls[c] EXCEPT !.result = Settlement(Resume(state))]
                   ELSE calls[c]]
    /\ UNCHANGED <<isInitialized, initializeCalls, initCalls, bulk>>

\* Promise.allSettled resolves once every call of the bulk has settled, and
\* sendBulkOrderNotifications returns the mapped results
BulkReturns ==
    /\ bulk.state = "pending"
    /\ \A i \in DOMAIN bulk.ids : calls[bulk.ids[i]].result # "pending"
    /\ bulk' = [state   |-> "returned",
                ids     |-> bulk.ids,
                results |-> Join([i \in DOMAIN bulk.ids |-> calls[bulk.ids[i]].result])]
    /\ UNCHANGED <<isInitialized, initializeCalls, initCalls, calls, sends>>

(***************************************************************************)
(* Spec: the store under the service's callers (the order-management       *)
(* subsystem and the dashboard), with no hook mounted.                     *)
(***************************************************************************)
InitHook ==
    /\ hookFid = NoFid
    /\ effectGen = 0
    /\ listeners = {}
    /\ pending = <<>>
    /\ hookState = [notifications |-> <<>>, unreadCount |-> 0]
    /\ lateCalls = 0

\* useState(true), useState(null); no call made, the permission not yet asked for
InitUse ==
    /\ loading = TRUE
    /\ error = Null
    /\ awaits = {}
    /\ settled = "none"
    /\ permission = "default"
    /\ shown = <<>>

InitView ==
    /\ notifications = <<>>
    /\ searchTerm = <<>>
    /\ sortBy = "newest"

InitStore ==
    /\ store = {}
    /\ usedIds = {}
    /\ now = 0
    /\ inflight = None
    /\ last = None

Init == InitStore /\ InitHook /\ InitView /\ InitEmail /\ InitUse

NoHook ==
    /\ UNCHANGED <<hookFid, effectGen, listeners, pending, hookState, lateCalls,
                   notifications, searchTerm, sortBy>>
    /\ UNCHANGED emailVars
    /\ UNCHANGED useVars

\* the payment statuses the callers of Spec pass: one known, one unknown
SpecPaymentInputs == {"failed", "shipped"}

CallCreatePayment ==
    \E o \in Orders, st \in SpecPaymentInputs :
        createSupplierPaymentNotification(o, "pending", st) /\ NoHook

CallMarkAsRead ==
    \E id \in DocIds : markAsRead(id) /\ NoHook

CallMarkMultipleAsRead ==
    \E ids \in SUBSET DocIds : markMultipleAsRead(ids) /\ NoHook

CallMarkAllAsReadQuery ==
    \E fid \in Suppliers : markAllAsReadQuery(fid) /\ NoHook

CallMarkAllAsReadCommit ==
    markAllAsReadCommit /\ NoHook

CallDelete ==
    \E id \in DocIds : deleteNotification(id) /\ NoHook

CallDeleteMultiple ==
    \E ids \in SUBSET DocIds : deleteMultipleNotifications(ids) /\ NoHook

\* daysOld as passed by the callers: none back, and the default
DaysOldInputs == {0, DefaultDaysOld}

CallCleanupQuery ==
    \E fid \in Suppliers, daysOld \in DaysOldInputs :
        cleanupOldNotificationsQuery(fid, daysOld) /\ NoHook

CallCleanupCommit ==
    cleanupOldNotificationsCommit /\ NoHook

ClockTick == Tick /\ NoHook

Next ==
    \/ CallCreatePayment
    \/ CallMarkAsRead
    \/ CallMarkMultipleAsRead
    \/ CallMarkAllAsReadQuery
    \/ CallMarkAllAsReadCommit
    \/ CallDelete
    \/ CallDeleteMultiple
    \/ CallCleanupQuery
    \/ CallCleanupCommit
    \/ ClockTick

Spec == Init /\ [][Next]_vars

(***************************************************************************)
(* SpecFactory: the order-management subsystem calling the factory         *)
(* operations with every status value, at a clock value drawn up front.    *)
(***************************************************************************)
PaymentStatusInputs == KnownPaymentStatuses \cup {"shipped", ""}
OrderStatusInputs == OrderStatuses \cup {"foo", "constructor"}

InitFactory ==
    /\ store = {}
    /\ usedIds = {}
    /\ now \in 0..MaxTime
    /\ inflight = None
    /\ last = None
    /\ InitHook
    /\ InitView
    /\ InitEmail
    /\ InitUse

FactoryCreateOrder ==
    \E o \in Orders : createSupplierOrderNotification(o) /\ NoHook

FactoryCreatePayment ==
    \E o \in Orders, old \in {"pending"}, new \in PaymentStatusInputs :
        createSupplierPaymentNotification(o, old, new) /\ NoHook

FactoryCreateOrderStatus ==
    \E o \in Orders, old \in {"pending"}, new \in OrderStatusInputs :
        createSupplierOrderStatusNotification(o, old, new) /\ NoHook

\* what the callers pass as title, message, data and productId
SystemTitle == <<"Maintenance">>
SystemMessage == <<"Service interrompu ", "ce soir">>
ProductTitle == <<"Stock bas">>
ProductMessage == <<"Il reste peu de ", "P">>
SystemDataInputs == {NoData, [severity |-> "info"]}
ProductIdInputs == {Undefined, "prod-1"}
ProductDataInputs == {NoData, [stock |-> 0]}

FactoryCreateSystem ==
    \E fid \in Suppliers, data \in SystemDataInputs, ignoreUndefinedProperties \in BOOLEAN :
        createSystemNotification(fid, SystemTitle, SystemMessage, data,
                                 ignoreUndefinedProperties) /\ NoHook

FactoryCreateProduct ==
    \E fid \in Suppliers, productId \in ProductIdInputs, data \in ProductDataInputs,
       ignoreUndefinedProperties \in BOOLEAN :
        createProductNotification(fid, ProductTitle, ProductMessage, productId, data,
                                  ignoreUndefinedProperties) /\ NoHook

NextFactory ==
    \/ FactoryCreateOrder
    \/ FactoryCreatePayment
    \/ FactoryCreateOrderStatus
    \/ FactoryCreateSystem
    \/ FactoryCreateProduct

SpecFactory == InitFactory /\ [][NextFactory]_vars

(***************************************************************************)
(* Live listeners.  onSnapshot registers a listener on a query and returns *)
(* the handle that removes it; the store dispatches the query's full       *)
(* result as an event when the listener is added and whenever a write      *)
(* changes that result, and delivers events later, one at a time, only to  *)
(* listeners that are still registered.  A listener is [kind, fid, gen]:   *)
(* gen is the run of the hook's effect that registered it.                 *)
(***************************************************************************)
subscribeToNotifications(fournisseurId, gen) ==
    [kind |-> "list", fid |-> fournisseurId, gen |-> gen]

subscribeToUnreadCount(fournisseurId, gen) ==
    [kind |-> "count", fid |-> fournisseurId, gen |-> gen]

\* what a listener's query matches in `docs`
ListenerView(l, docs) ==
    IF l.kind = "list"
    THEN ListQuery(docs, l.fid, SubscriptionLimit)
    ELSE SeqOfSet(UnreadQuery(docs, l.fid))

\* what the listener's callback is passed: the mapped documents, or snapshot.size
ListenerPayload(l, docs) ==
    IF l.kind = "list" THEN ListenerView(l, docs) ELSE Len(ListenerView(l, docs))

\* an event that carries what the query matched before the write
SnapshotEventStale(l, docs) ==
    [kind |-> l.kind, fid |-> l.fid, gen |-> l.gen, payload |-> ListenerPayload(l, store)]

SnapshotEvent(l, docs) ==
    [kind |-> l.kind, fid |-> l.fid, gen |-> l.gen, payload |-> ListenerPayload(l, docs)]

\* the listeners in the order they were registered: by effect run, list first
RECURSIVE ListenersInOrder(_)
ListenersInOrder(ls) ==
    IF ls = {} THEN <<>>
    ELSE LET first == CHOOSE l \in ls : \A m \in ls \ {l} :
                         \/ l.gen < m.gen
                         \/ l.gen = m.gen /\ l.kind = "list"
         IN  <<first>> \o ListenersInOrder(ls \ {first})

\* the events a write taking the collection from `before` to `after` dispatches
ChangeEvents(ls, before, after) ==
    LET changed == {l \in ls : ListenerView(l, before) # ListenerView(l, after)}
        order == ListenersInOrder(changed)
    IN  [i \in DOMAIN order |-> SnapshotEvent(order[i], after)]

\* the cleanup of the hook's effect calls only the list listener's handle
CleanupHandlesListOnly(fournisseurId, gen) ==
    {subscribeToNotifications(fournisseurId, gen)}

\* the handles the cleanup of the hook's effect calls
CleanupHandles(fournisseurId, gen) ==
    {subscribeToNotifications(fournisseurId, gen),
     subscribeToUnreadCount(fournisseurId, gen)}

\* the body of the hook's listener effect for a non-null fournisseurId
EffectRun(ls, queue, fournisseurId, gen) ==
    LET list  == subscribeToNotifications(fournisseurId, gen)
        count == subscribeToUnreadCount(fournisseurId, gen)
    IN  /\ listeners' = ls \cup {list, count}
        /\ pending' = queue \o <<SnapshotEvent(list, store), SnapshotEvent(count, store)>>
        /\ Len(pending') <= MaxPending + 2

\* useState([]), useState(0)
InitialState == [notifications |-> <<>>, unreadCount |-> 0]

\* the hook is rendered for the first time, or again after an unmount, with
\* fresh state
HookMount(fournisseurId) ==
    /\ hookFid = NoFid
    /\ effectGen < MaxMounts
    /\ hookFid' = fournisseurId
    /\ effectGen' = effectGen + 1
    /\ EffectRun(listeners, pending, fournisseurId, effectGen + 1)
    /\ hookState' = InitialState
    /\ UNCHANGED lateCalls

\* the fournisseurId prop changes: cleanup of the old effect, then the new one
HookChangeFid(fournisseurId) ==
    /\ hookFid \notin {NoFid, fournisseurId}
    /\ effectGen < MaxMounts
    /\ hookFid' = fournisseurId
    /\ effectGen' = effectGen + 1
    /\ EffectRun(listeners \ CleanupHandles(hookFid, effectGen), pending,
                 fournisseurId, effectGen + 1)
    /\ UNCHANGED <<hookState, lateCalls>>

\* the hook unmounts: cleanup of the effect
HookUnmount ==
    /\ hookFid # NoFid
    /\ hookFid' = NoFid
    /\ listeners' = listeners \ CleanupHandles(hookFid, effectGen)
    /\ UNCHANGED <<effectGen, pending, hookState, lateCalls>>

\* the callbacks the hook passes to subscribeToNotifications / subscribeToUnreadCount:
\* what they set
HookCallback(e) ==
    IF e.kind = "list"
    THEN [hookState EXCEPT !.notifications = e.payload]
    ELSE [hookState EXCEPT !.unreadCount = e.payload]

RecentWindowMs == 10000

\* a filter that takes the recent notifications, read or not
recentNotificationsReadToo(newNotifications, t) ==
    SelectSeq(newNotifications, LAMBDA n : (t - GetTime(n.createdAt)) < RecentWindowMs)

\* recentNotifications: created in the last 10 seconds and unread
recentNotifications(newNotifications, t) ==
    SelectSeq(newNotifications,
              LAMBDA n : (t - GetTime(n.createdAt)) < RecentWindowMs /\ ~n.isRead)

\* showBrowserNotification: the Notification objects it constructs, none
\* unless the permission is granted; gen is the subscription that called it
showBrowserNotification(notification, gen) ==
    IF permission = "granted"
    THEN <<[tag |-> notification.id, title |-> notification.title, gen |-> gen]>>
    ELSE <<>>

\* recentNotifications.forEach(showBrowserNotification)
RECURSIVE ForEachShow(_, _)
ForEachShow(recent, gen) ==
    IF recent = <<>> THEN <<>>
    ELSE showBrowserNotification(Head(recent), gen) \o ForEachShow(Tail(recent), gen)

\* the browser notifications a callback constructs: the list callback for the
\* recent unread notifications of its list, the count callback none
Announced(e) ==
    IF e.kind = "list"
    THEN ForEachShow(recentNotifications(e.payload, now), e.gen)
    ELSE <<>>

\* the store delivers its oldest event: to the callback if the listener is
\* still registered, to nobody otherwise
Deliver ==
    /\ pending # <<>>
    /\ LET e == Head(pending) IN
         IF [kind |-> e.kind, fid |-> e.fid, gen |-> e.gen] \in listeners
         THEN /\ hookState' = HookCallback(e)
              /\ shown' = shown \o Announced(e)
              /\ lateCalls' = lateCalls
                   + (IF hookFid = NoFid \/ e.gen # effectGen THEN 1 ELSE 0)
         ELSE UNCHANGED <<hookState, lateCalls, shown>>
    /\ pending' = Tail(pending)
    /\ UNCHANGED <<hookFid, effectGen, listeners>>

(***************************************************************************)
(* SpecHook: the store written by its callers while the hook mounts,       *)
(* changes supplier and unmounts.                                          *)
(***************************************************************************)
\* a write reaches the listeners
Dispatch ==
    /\ pending' = pending \o ChangeEvents(listeners, store, store')
    /\ Len(pending') <= MaxPending
    /\ UNCHANGED <<hookFid, effectGen, listeners, hookState, lateCalls>>
    /\ UNCHANGED viewVars /\ UNCHANGED emailVars

HookOnly == UNCHANGED storeVars /\ UNCHANGED viewVars /\ UNCHANGED emailVars

\* the listener effect alone: no fetch, no hook operation, no permission prompt
ListenersOnly == UNCHANGED <<loading, error, awaits, settled, permission>>

WriteCreatePayment ==
    \E o \in Orders :
        createSupplierPaymentNotification(o, "pending", "failed")
           /\ Dispatch /\ UNCHANGED useVars

WriteMarkAsRead ==
    \E id \in DocIds : markAsRead(id) /\ Dispatch /\ UNCHANGED useVars

WriteMarkMultipleAsRead ==
    \E ids \in SUBSET DocIds : markMultipleAsRead(ids) /\ Dispatch /\ UNCHANGED useVars

WriteDelete ==
    \E id \in DocIds : deleteNotification(id) /\ Dispatch /\ UNCHANGED useVars

Mount == \E fid \in Suppliers : HookMount(fid) /\ HookOnly /\ UNCHANGED useVars

ChangeFid == \E fid \in Suppliers : HookChangeFid(fid) /\ HookOnly /\ UNCHANGED useVars

Unmount == HookUnmount /\ HookOnly /\ UNCHANGED useVars

DeliverEvent == Deliver /\ HookOnly /\ ListenersOnly

\* time passes: no document changes, so no event is dispatched
HookClockTick ==
    Tick /\ UNCHANGED hookVars /\ UNCHANGED viewVars /\ UNCHANGED emailVars
         /\ UNCHANGED useVars

NextHook ==
    \/ WriteCreatePayment
    \/ WriteMarkAsRead
    \/ WriteMarkMultipleAsRead
    \/ WriteDelete
    \/ Mount
    \/ ChangeFid
    \/ Unmount
    \/ DeliverEvent
    \/ HookClockTick

SpecHook == Init /\ [][NextHook]_vars

(***************************************************************************)
(* SpecNotify: one live subscription.  The hook has mounted for S1 on an   *)
(* empty collection, its first fetch and first snapshots are in; the user  *)
(* answers the permission prompt while notifications are created and read  *)
(* and seconds pass.                                                       *)
(***************************************************************************)
\* the instants of the clock: the start, and just inside and just outside the
\* 10 seconds after it
Instants == {0, RecentWindowMs - 1, RecentWindowMs}

InitMounted ==
    /\ InitStore
    /\ InitView
    /\ InitEmail
    /\ hookFid = "S1"
    /\ effectGen = 1
    /\ listeners = {subscribeToNotifications("S1", 1), subscribeToUnreadCount("S1", 1)}
    /\ pending = <<>>
    /\ hookState = InitialState
    /\ lateCalls = 0
    /\ loading = FALSE
    /\ error = Null
    /\ awaits = {}
    /\ settled = "none"
    /\ permission = "default"
    /\ shown = <<>>

\* Notification.requestPermission() resolves: the user has answered the prompt
requestPermission(answer) ==
    /\ permission = "default"
    /\ permission' = answer
    /\ UNCHANGED <<loading, error, awaits, settled, shown>>

PermissionAnswered ==
    \E answer \in {"granted", "denied"} :
        requestPermission(answer) /\ HookOnly /\ UNCHANGED hookVars

Elapse ==
    /\ \E t \in Instants : t > now /\ now' = t
    /\ UNCHANGED <<store, usedIds, inflight, last>>
    /\ UNCHANGED hookVars /\ UNCHANGED viewVars /\ UNCHANGED emailVars
    /\ UNCHANGED useVars

NextNotify ==
    \/ PermissionAnswered
    \/ WriteCreatePayment
    \/ WriteMarkAsRead
    \/ DeliverEvent
    \/ Elapse

SpecNotify == InitMounted /\ [][NextNotify]_vars

(***************************************************************************)
(* The hook's asynchronous functions.  Each runs to its await, where it     *)
(* joins `awaits`, and resumes in a later step once what it awaits has     *)
(* settled.  A call is [op, live, ok, ..]: live is whether the component   *)
(* that made it is still mounted (React drops the state updates of an      *)
(* unmounted component), ok whether what it awaits resolved.               *)
(***************************************************************************)
\* setError('Failed to ...')
ErrorMessage(op) ==
    CASE op = "fetch"              -> "Failed to fetch notifications"
      [] op = "markAsRead"         -> "Failed to mark notification as read"
      [] op = "markMultipleAsRead" -> "Failed to mark notifications as read"
      [] op = "markAllAsRead"      -> "Failed to mark all notifications as read"
      [] op = "deleteNotification" -> "Failed to delete notification"

\* Math.max(0, n)
Max0(n) == IF n < 0 THEN 0 ELSE n

\* fetchNotifications at its await of Promise.all: the reads not served yet
FetchCall(fournisseurId) ==
    [op |-> "fetch", fid |-> fournisseurId, live |-> TRUE, state |-> "reading",
     ok |-> TRUE, list |-> <<>>, count |-> 0]

\* fetchNotifications() for a non-null fournisseurId, up to its await:
\* setLoading(true), setError(null), both reads requested
fetchNotifications(fournisseurId) ==
    /\ Cardinality({a \in awaits : a.op = "fetch"}) < MaxFetches
    /\ FetchCall(fournisseurId) \notin awaits
    /\ loading' = TRUE
    /\ error' = Null
    /\ awaits' = awaits \cup {FetchCall(fournisseurId)}
    /\ UNCHANGED <<settled, permission, shown>>

\* the store answers the two reads of a fetch, getNotificationsByFournisseur and
\* getUnreadCount, or fails them: Promise.all settles
FetchServed(a, available) ==
    LET b == IF available
             THEN [a EXCEPT !.state = "settled",
                            !.list  = getNotificationsByFournisseur(a.fid, DefaultLimit,
                                                                    Undefined),
                            !.count = getUnreadCount(a.fid)]
             ELSE [a EXCEPT !.state = "settled", !.ok = FALSE]
    IN  /\ a.op = "fetch"
        /\ a.state = "reading"
        /\ b \notin awaits
        /\ awaits' = (awaits \ {a}) \cup {b}
        /\ UNCHANGED <<loading, error, settled, permission, shown>>
        /\ UNCHANGED <<hookFid, effectGen, listeners, pending, hookState, lateCalls>>

\* what fetchNotifications sets after its await: the two results, or nothing
\* in the catch
FetchApplied(a, state) ==
    IF a.ok THEN [notifications |-> a.list, unreadCount |-> a.count] ELSE state

\* fetchNotifications after its await: Promise.all resolved with both results,
\* or rejected with the first failure; then the finally block
FetchResumes(a) ==
    /\ a.op = "fetch"
    /\ a.state = "settled"
    /\ awaits' = awaits \ {a}
    /\ settled' = "resolved"
    /\ IF a.live
       THEN /\ hookState' = FetchApplied(a, hookState)
            /\ error' = IF a.ok THEN error ELSE ErrorMessage("fetch")
            /\ loading' = FALSE
       ELSE UNCHANGED <<hookState, error, loading>>
    /\ UNCHANGED <<permission, shown>>
    /\ UNCHANGED <<hookFid, effectGen, listeners, pending, lateCalls>>

\* one of the four operations at its await of the service call: seen is the
\* notifications of the render the function was created in
OpCall(op, ids, state, ok, seen) ==
    [op |-> op, ids |-> ids, live |-> TRUE, state |-> state, ok |-> ok, seen |-> seen]

\* prev.map(n => ids.includes(n.id) ? { ...n, isRead: true } : n)
MapRead(list, ids) ==
    [i \in DOMAIN list |->
        IF list[i].id \in ids THEN [list[i] EXCEPT !.isRead = TRUE] ELSE list[i]]

\* an operation that updates the local state whether or not the store confirmed
OpAppliedOptimistic(a, state) ==
    CASE a.op = "markAsRead" ->
           [notifications |-> MapRead(state.notifications, a.ids),
            unreadCount   |-> Max0(state.unreadCount - 1)]
      [] a.op = "markMultipleAsRead" ->
           [notifications |-> MapRead(state.notifications, a.ids),
            unreadCount   |->
               Max0(state.unreadCount
                      - Len(SelectSeq(a.seen, LAMBDA n : n.id \in a.ids /\ ~n.isRead)))]
      [] a.op = "markAllAsRead" ->
           [notifications |-> MapRead(state.notifications,
                                      {n.id : n \in Range(state.notifications)}),
            unreadCount   |-> 0]
      [] a.op = "deleteNotification" ->
           [notifications |-> SelectSeq(state.notifications, LAMBDA n : n.id \notin a.ids),
            unreadCount   |->
               IF \E i \in DOMAIN a.seen :
                     /\ a.seen[i].id \in a.ids
                     /\ ~a.seen[i].isRead
                     /\ \A j \in 1..(i - 1) : a.seen[j].id \notin a.ids
               THEN Max0(state.unreadCount - 1) ELSE state.unreadCount]

\* what markAsRead, markMultipleAsRead, markAllAsRead and deleteNotification
\* set after their await: the local update when the service call resolved,
\* nothing in the catch
OpApplied(a, state) ==
    IF ~a.ok THEN state
    ELSE CASE a.op = "markAsRead" ->
                [notifications |-> MapRead(state.notifications, a.ids),
                 unreadCount   |-> Max0(state.unreadCount - 1)]
           [] a.op = "markMultipleAsRead" ->
                [notifications |-> MapRead(state.notifications, a.ids),
                 unreadCount   |->
                    Max0(state.unreadCount
                           - Len(SelectSeq(a.seen, LAMBDA n : n.id \in a.ids /\ ~n.isRead)))]
           [] a.op = "markAllAsRead" ->
                [notifications |-> MapRead(state.notifications,
                                           {n.id : n \in Range(state.notifications)}),
                 unreadCount   |-> 0]
           [] a.op = "deleteNotification" ->
                [notifications |-> SelectSeq(state.notifications,
                                             LAMBDA n : n.id \notin a.ids),
                 unreadCount   |->
                    IF \E i \in DOMAIN a.seen :
                          /\ a.seen[i].id \in a.ids
                          /\ ~a.seen[i].isRead
                          /\ \A j \in 1..(i - 1) : a.seen[j].id \notin a.ids
                    THEN Max0(state.unreadCount - 1) ELSE state.unreadCount]

\* the call joins the awaited ones
Awaiting(a) ==
    /\ hookFid # NoFid
    /\ Cardinality({b \in awaits : b.op # "fetch"}) < MaxOps
    /\ a \notin awaits
    /\ awaits' = awaits \cup {a}
    /\ UNCHANGED <<loading, error, settled, permission, shown>>

\* the store is unreachable: the service call is rejected and writes nothing
Unavailable ==
    /\ UNCHANGED storeVars
    /\ UNCHANGED hookVars

\* the hook's markAsRead(notificationId) up to its await
useMarkAsRead(notificationId, available) ==
    /\ IF available THEN markAsRead(notificationId) /\ Dispatch
                    ELSE Unavailable /\ UNCHANGED viewVars /\ UNCHANGED emailVars
    /\ Awaiting(OpCall("markAsRead", {notificationId}, "settled",
                       available /\ last'.ok, <<>>))

\* the hook's markMultipleAsRead(notificationIds) up to its await
useMarkMultipleAsRead(notificationIds, available) ==
    /\ IF available THEN markMultipleAsRead(notificationIds) /\ Dispatch
                    ELSE Unavailable /\ UNCHANGED viewVars /\ UNCHANGED emailVars
    /\ Awaiting(OpCall("markMultipleAsRead", notificationIds, "settled",
                       available /\ last'.ok, hookState.notifications))

\* the hook's deleteNotification(notificationId) up to its await
useDeleteNotification(notificationId, available) ==
    /\ IF available THEN deleteNotification(notificationId) /\ Dispatch
                    ELSE Unavailable /\ UNCHANGED viewVars /\ UNCHANGED emailVars
    /\ Awaiting(OpCall("deleteNotification", {notificationId}, "settled",
                       available /\ last'.ok, hookState.notifications))

\* the hook's markAllAsRead() up to the service's first await (its query), or
\* to its rejection
useMarkAllAsRead(available) ==
    /\ hookFid # NoFid
    /\ IF available THEN markAllAsReadQuery(hookFid) ELSE UNCHANGED storeVars
    /\ UNCHANGED hookVars /\ UNCHANGED viewVars /\ UNCHANGED emailVars
    /\ Awaiting(OpCall("markAllAsRead", {},
                       IF available THEN "committing" ELSE "settled", available, <<>>))

\* the service's markAllAsRead commits its batch and settles
useMarkAllAsReadCommits(a) ==
    /\ a.op = "markAllAsRead"
    /\ a.state = "committing"
    /\ markAllAsReadCommit
    /\ Dispatch
    /\ [a EXCEPT !.state = "settled", !.ok = last'.ok] \notin awaits
    /\ awaits' = (awaits \ {a}) \cup {[a EXCEPT !.state = "settled", !.ok = last'.ok]}
    /\ UNCHANGED <<loading, error, settled, permission, shown>>

\* one of the four operations after its await: the local update, or the catch
OpResumes(a) ==
    /\ a.op # "fetch"
    /\ a.state = "settled"
    /\ awaits' = awaits \ {a}
    /\ settled' = "resolved"
    /\ IF a.live
       THEN /\ hookState' = OpApplied(a, hookState)
            /\ error' = IF a.ok THEN error ELSE ErrorMessage(a.op)
       ELSE UNCHANGED <<hookState, error>>
    /\ UNCHANGED <<loading, permission, shown>>
    /\ UNCHANGED <<hookFid, effectGen, listeners, pending, lateCalls>>

\* clearError: () => setError(null)
clearError ==
    /\ hookFid # NoFid
    /\ error' = Null
    /\ UNCHANGED <<loading, awaits, settled, permission, shown>>
    /\ UNCHANGED hookVars

\* the hook unmounts: the effect's cleanup runs, and the calls still awaited
\* belong to a component that is gone
useUnmount ==
    /\ HookUnmount
    /\ awaits' = {[a EXCEPT !.live = FALSE] : a \in awaits}
    /\ UNCHANGED <<loading, error, settled, permission, shown>>

(***************************************************************************)
(* SpecFetch: the hook through its life (mounting, changing supplier,      *)
(* unmounting) with the fetches of its initialize effect in flight, the    *)
(* store answering or failing them, other writers creating and reading     *)
(* notifications, and the live listeners delivering.                       *)
(* SpecOps: the mounted hook running its four operations, one at a time,   *)
(* the store confirming or rejecting each, another writer creating         *)
(* notifications, and the live listeners delivering.                       *)
(***************************************************************************)
UseMount == \E fid \in Suppliers : HookMount(fid) /\ fetchNotifications(fid) /\ HookOnly

UseChangeFid ==
    \E fid \in Suppliers : HookChangeFid(fid) /\ fetchNotifications(fid) /\ HookOnly

UseUnmount == useUnmount /\ HookOnly

UseFetchServed ==
    \E a \in awaits, available \in BOOLEAN : FetchServed(a, available) /\ HookOnly

UseFetchResumes == \E a \in awaits : FetchResumes(a) /\ HookOnly

UseMarkAsRead ==
    \E id \in DocIds, available \in BOOLEAN : useMarkAsRead(id, available)

UseMarkMultipleAsRead ==
    \E ids \in SUBSET DocIds, available \in BOOLEAN : useMarkMultipleAsRead(ids, available)

UseMarkAllAsRead == \E available \in BOOLEAN : useMarkAllAsRead(available)

UseMarkAllAsReadCommits == \E a \in awaits : useMarkAllAsReadCommits(a)

UseDeleteNotification ==
    \E id \in DocIds, available \in BOOLEAN : useDeleteNotification(id, available)

UseOpResumes == \E a \in awaits : OpResumes(a) /\ HookOnly

UseClearError == clearError /\ HookOnly

NextFetch ==
    \/ UseMount
    \/ UseChangeFid
    \/ UseUnmount
    \/ UseFetchServed
    \/ UseFetchResumes
    \/ WriteCreatePayment
    \/ WriteMarkAsRead
    \/ DeliverEvent

SpecFetch == Init /\ [][NextFetch]_vars

NextOps ==
    \/ UseMarkAsRead
    \/ UseMarkMultipleAsRead
    \/ UseMarkAllAsRead
    \/ UseMarkAllAsReadCommits
    \/ UseDeleteNotification
    \/ UseOpResumes
    \/ UseClearError
    \/ WriteCreatePayment
    \/ DeliverEvent

SpecOps == InitMounted /\ [][NextOps]_vars

(***************************************************************************)
(* EnhancedNotifications page: the filtered and sorted view (useMemo over  *)
(* notifications, searchTerm and sortBy).                                  *)
(***************************************************************************)
SortKeys == {"newest", "oldest", "priority", "unread", "type"}
Priorities == {"high", "medium", "low"}

\* priorityOrder[p] || 0
priorityOrder(p) ==
    CASE p = "high"   -> 3
      [] p = "medium" -> 2
      [] p = "low"    -> 1
      [] OTHER        -> 0

\* where a type stands in the lexical order localeCompare follows
TypeRank(t) ==
    CASE t = "account"   -> 1
      [] t = "inventory" -> 2
      [] t = "marketing" -> 3
      [] t = "order"     -> 4
      [] t = "payment"   -> 5
      [] t = "product"   -> 6
      [] OTHER           -> 7

\* a.localeCompare(b)
LocaleCompare(a, b) ==
    IF TypeRank(a) < TypeRank(b) THEN -1 ELSE IF TypeRank(a) > TypeRank(b) THEN 1 ELSE 0

\* new Date(b.createdAt).getTime() - new Date(a.createdAt).getTime()
NewestFirst(a, b) == GetTime(b.createdAt) - GetTime(a.createdAt)

\* the priority case without its descending order
ComparePriorityAscending(a, b) ==
    IF priorityOrder(a.priority) = priorityOrder(b.priority)
    THEN NewestFirst(a, b)
    ELSE priorityOrder(a.priority) - priorityOrder(b.priority)

\* case 'priority' of the comparator
ComparePriority(a, b) ==
    IF priorityOrder(a.priority) = priorityOrder(b.priority)
    THEN NewestFirst(a, b)
    ELSE priorityOrder(b.priority) - priorityOrder(a.priority)

\* the comparator passed to filtered.sort
Compare(a, b, key) ==
    CASE key = "oldest"   -> GetTime(a.createdAt) - GetTime(b.createdAt)
      [] key = "priority" -> ComparePriority(a, b)
      [] key = "unread"   -> IF a.isRead = b.isRead THEN NewestFirst(a, b)
                             ELSE IF a.isRead THEN 1 ELSE -1
      [] key = "type"     -> IF a.type = b.type THEN NewestFirst(a, b)
                             ELSE LocaleCompare(a.type, b.type)
      [] OTHER            -> NewestFirst(a, b)

\* x put into the sorted sequence s, behind every element it does not precede
RECURSIVE InsertSorted(_, _, _)
InsertSorted(s, x, key) ==
    IF s = <<>> THEN <<x>>
    ELSE IF Compare(s[Len(s)], x, key) <= 0
         THEN Append(s, x)
         ELSE Append(InsertSorted(SubSeq(s, 1, Len(s) - 1), x, key), s[Len(s)])

\* Array.prototype.sort with a comparator: a stable sort
RECURSIVE SortBy(_, _)
SortBy(s, key) ==
    IF s = <<>> THEN <<>>
    ELSE InsertSorted(SortBy(SubSeq(s, 1, Len(s) - 1), key), s[Len(s)], key)

\* notifications.filter(matchesSearch)
Filtered(list, term) ==
    SelectSeq(list, LAMBDA n : term = <<>> \/ MatchesTerm(n, ToLowerCase(term)))

filteredAndSortedNotifications ==
    SortBy(Filtered(notifications, searchTerm), sortBy)

(***************************************************************************)
(* SpecView: the page holding a fetched list while the user picks a sort   *)
(* key and types a search term.                                            *)
(***************************************************************************)
\* what goes with a notification's read state in the sample lists: an unread
\* order notification and a read payment notification
SampleShapes ==
    <<[type |-> "order", isRead |-> FALSE, title |-> <<"New ", "Order">>,
       message |-> <<"Nouvelle commande ", "recue">>],
      [type |-> "payment", isRead |-> TRUE, title |-> <<"Payment ", "Received">>,
       message |-> <<"Paiement ", "recu">>]>>

\* two instants: enough for equal and for different timestamps
SampleTimes == {1, 2}

\* a stored record has no priority property unless its writer gave it one:
\* a.priority is then undefined
SampleNotifications ==
    {[priority |-> p, createdAt |-> ToISOString(t)] :
        p \in Priorities \cup {Undefined}, t \in SampleTimes}

SearchTerms == {<<>>, <<"ORDER">>}

\* a fetched list: its documents have distinct ids, order and payment
\* notifications alternate in it, every priority and instant at every place
FetchedLists ==
    UNION {{[i \in 1..n |-> f[i] @@ SampleShapes[((i + k) % 2) + 1] @@ [id |-> i]] :
               f \in [1..n -> SampleNotifications], k \in {0, 1}}
           : n \in 0..MaxListLen}

InitViewSpec ==
    /\ InitStore
    /\ InitHook
    /\ InitEmail
    /\ InitUse
    /\ notifications \in FetchedLists
    /\ searchTerm = <<>>
    /\ sortBy = "newest"

setSortBy ==
    /\ \E key \in SortKeys : sortBy' = key
    /\ UNCHANGED <<notifications, searchTerm>>
    /\ UNCHANGED storeVars /\ UNCHANGED hookVars /\ UNCHANGED emailVars
    /\ UNCHANGED useVars

setSearchTerm ==
    /\ \E term \in SearchTerms : searchTerm' = term
    /\ UNCHANGED <<notifications, sortBy>>
    /\ UNCHANGED storeVars /\ UNCHANGED hookVars /\ UNCHANGED emailVars
    /\ UNCHANGED useVars

NextView == setSortBy \/ setSearchTerm

SpecView == InitViewSpec /\ [][NextView]_vars

(***************************************************************************)
(* SpecEmail: the application initializing the dispatcher and sending      *)
(* order emails, one by one and in bulk, while the provider settles the    *)
(* sends in any order.                                                     *)
(***************************************************************************)
EmailOnly ==
    UNCHANGED storeVars /\ UNCHANGED hookVars /\ UNCHANGED viewVars /\ UNCHANGED useVars

\* the order lists sendBulkOrderNotifications is called with
BulkInputs == UNION {[1..n -> EmailOrders] : n \in 0..MaxEmailCalls}

EmailInitialize == \E initThrows \in BOOLEAN : initialize(initThrows) /\ EmailOnly

EmailSend == \E order \in EmailOrders : sendOrderNotification(order) /\ EmailOnly

EmailSendBulk == \E orders \in BulkInputs : sendBulkOrderNotifications(orders) /\ EmailOnly

EmailProviderSettles ==
    \E i \in 1..MaxEmailCalls, state \in {"resolved", "rejected"} :
        ProviderSettles(i, state) /\ EmailOnly

EmailBulkReturns == BulkReturns /\ EmailOnly

NextEmail ==
    \/ EmailInitialize
    \/ EmailSend
    \/ EmailSendBulk
    \/ EmailProviderSettles
    \/ EmailBulkReturns

SpecEmail == Init /\ [][NextEmail]_vars

(***************************************************************************)
(* Claims about the factory operations.                                    *)
(***************************************************************************)
\* the step stores exactly one new document, d
StoresExactly(d) == d \notin store /\ store' = store \cup {d}

\* C7: a call of createSupplierPaymentNotification(order, oldStatus, newStatus)
\* stores exactly one notification, of type payment, for the order's supplier and
\* with data.newPaymentStatus = newStatus, when newStatus is paid, failed,
\* pending or refunded; for any other newStatus it leaves the store unchanged.
C7_PaymentFactory ==
    [][\A o \in Orders, old \in {"pending"}, new \in PaymentStatusInputs :
          createSupplierPaymentNotification(o, old, new) =>
             IF new \in {"paid", "failed", "pending", "refunded"}
             THEN \E d \in store' :
                     /\ StoresExactly(d)
                     /\ d.type = "payment"
                     /\ d.fournisseurId = o.fournisseurId
                     /\ d.data.newPaymentStatus = new
                     /\ d.data.oldPaymentStatus = old
                     /\ ~d.isRead
             ELSE store' = store /\ usedIds' = usedIds]_vars

\* C7 witness: a refunded payment notification of S1 is stored, and the last
\* call, a payment transition of S2's order, resolved and stored nothing
C7_Witness ==
    /\ last = Settled("createSupplierPaymentNotification", "S2", TRUE)
    /\ Cardinality(store) = 1
    /\ \E d \in store :
          d.type = "payment" /\ d.fournisseurId = "S1"
             /\ d.data.newPaymentStatus = "refunded"

IsPayment(d, statuses) ==
    d.type = "payment" /\ DataGet(d, "newPaymentStatus") \in statuses

C9_OrderStatusFactory ==
    [][\A o \in Orders, old \in {"pending"}, new \in OrderStatusInputs :
          createSupplierOrderStatusNotification(o, old, new) =>
             \E d \in store' :
                /\ StoresExactly(d)
                /\ d.type = "order"
                /\ IF new \in OrderStatuses
                   THEN /\ Includes(d.message, <<statusMessages(new)>>)
                        /\ statusMessages(new) \notin {new, Undefined}
                        /\ new = "out_for_delivery"
                              => Includes(d.message, <<"en livraison">>)
                   ELSE Includes(d.message, <<new>>)]_vars

\* C9 on every status value that is not a property of Object.prototype
C9_OrderStatusFactoryOwnKeys ==
    [][\A o \in Orders, old \in {"pending"}, new \in OrderStatusInputs \ {"constructor"} :
          createSupplierOrderStatusNotification(o, old, new) =>
             \E d \in store' :
                /\ StoresExactly(d)
                /\ d.type = "order"
                /\ IF new \in OrderStatuses
                   THEN /\ Includes(d.message, <<statusMessages(new)>>)
                        /\ statusMessages(new) \notin {new, Undefined}
                        /\ new = "out_for_delivery"
                              => Includes(d.message, <<"en livraison">>)
                   ELSE Includes(d.message, <<new>>)]_vars

(***************************************************************************)
(* Claims about the store operations (Spec).                               *)
(***************************************************************************)
UnreadOf(docs, fid) == {n \in docs : n.fournisseurId = fid /\ n.isRead = FALSE}

\* C1: in every state reached by createNotification, markAsRead,
\* markMultipleAsRead, markAllAsRead and deleteNotification calls,
\* getUnreadCount(S) is the number of stored notifications of S with isRead false.
C1_UnreadCount ==
    \A fid \in Suppliers : getUnreadCount(fid) = Cardinality(UnreadOf(store, fid))

\* C1 witness: a supplier with one read and one unread notification, after a
\* mark-read call
C1_Witness ==
    /\ last.op \in {"markAsRead", "markMultipleAsRead", "markAllAsRead"}
    /\ \E fid \in Suppliers :
          /\ getUnreadCount(fid) = 1
          /\ \E n \in store : n.fournisseurId = fid /\ n.isRead

\* one complete markAllAsRead(fid) with nothing else in between, stamped t
MarkAllRun(docs, fid, t) == BatchApply(docs, ReadWrites(MarkAllSnapshot(docs, fid), t))

\* applying markAllAsRead(fid) a second time, later, changes nothing
MarkAllIdempotent(docs, fid) ==
    \A t1 \in now..MaxTime : \A t2 \in t1..(MaxTime + 1) :
        LET once == MarkAllRun(docs, fid, t1) IN
        /\ MarkAllRun(once, fid, t2) = once
        /\ UnreadOf(once, fid) = {}

\* C2 as stated: markAllAsRead(S) is idempotent, and once a call of it has
\* completed getUnreadCount(S) is 0.
C2_Original ==
    \A fid \in Suppliers :
        /\ MarkAllIdempotent(store, fid)
        /\ last = Settled("markAllAsRead", fid, TRUE) => getUnreadCount(fid) = 0

\* C2 amended: markAllAsRead(S) is idempotent when nothing is written between
\* its query and its commit: run twice in a row it leaves the store as one run
\* does, with no unread notification of S.  A call that resolves has marked
\* read every notification its query returned; the notifications of S that are
\* unread when it resolves are exactly those that were unread before the commit
\* and were not in the query's snapshot (created after the query).
C2_MarkAllAsRead ==
    /\ [](\A fid \in Suppliers : MarkAllIdempotent(store, fid))
    /\ [][(markAllAsReadCommit /\ last'.ok) =>
            /\ \A id \in inflight.ids : \E n \in store' : n.id = id /\ n.isRead
            /\ {n.id : n \in UnreadOf(store', inflight.fid)}
                 = {n.id : n \in UnreadOf(store, inflight.fid)} \ inflight.ids
            /\ {n.id : n \in UnreadOf(store, inflight.fid)} \subseteq inflight.ids
                  => Cardinality(UnreadQuery(store', inflight.fid)) = 0]_vars

\* C2 witness: a markAllAsRead call resolved, its supplier has a notification it
\* marked read and none unread
C2_Witness ==
    \E fid \in Suppliers :
        /\ last = Settled("markAllAsRead", fid, TRUE)
        /\ getUnreadCount(fid) = 0
        /\ \E n \in store : n.fournisseurId = fid /\ n.isRead /\ n.readAt = ToISOString(now)

\* C3: a deleteNotification(id) call removes the document; getUnreadCount(S)
\* drops by exactly 1 when the document was an unread notification of S and is
\* unchanged otherwise (a read notification, another supplier's, or no document).
C3_DeleteUnreadCount ==
    [][\A id \in DocIds :
          deleteNotification(id) =>
             /\ ~Exists(store', id)
             /\ \A fid \in Suppliers :
                   (getUnreadCount(fid))' =
                      getUnreadCount(fid)
                        - (IF \E n \in UnreadOf(store, fid) : n.id = id THEN 1 ELSE 0)]_vars

\* C3 witness: a delete settled, a document is gone, and a supplier still has
\* an unread notification
C3_Witness ==
    /\ last = Settled("deleteNotification", NoFid, TRUE)
    /\ \E id \in usedIds : ~Exists(store, id)
    /\ \E fid \in Suppliers : getUnreadCount(fid) = 1

\* C6: a markMultipleAsRead(ids) call either marks every listed notification
\* read, with one timestamp, and touches nothing else, or is rejected and
\* changes nothing; a deleteMultipleNotifications(ids) call removes every
\* listed notification and nothing else.  Each is one step of the store, so a
\* read sees the state before it or the state after it.
C6_BatchAtomic ==
    [][/\ \A ids \in SUBSET DocIds :
            markMultipleAsRead(ids) =>
               \/ /\ last'.ok
                  /\ \A id \in ids : \E n \in store' :
                        n.id = id /\ n.isRead /\ n.readAt = ToISOString(now)
                  /\ {n \in store' : n.id \notin ids} = {n \in store : n.id \notin ids}
                  /\ {n.id : n \in store'} = {n.id : n \in store}
               \/ /\ ~last'.ok
                  /\ store' = store
       /\ \A ids \in SUBSET DocIds :
            deleteMultipleNotifications(ids) =>
               /\ last'.ok
               /\ store' = {n \in store : n.id \notin ids}]_vars

\* C6 witness: a batch was rejected while a notification is still unread, one
\* of its documents being gone
C6_Witness ==
    /\ last = Settled("markMultipleAsRead", NoFid, FALSE)
    /\ \E n \in store : ~n.isRead
    /\ \E id \in usedIds : ~Exists(store, id)

(***************************************************************************)
(* Claims about the live listeners and the reads (SpecHook).               *)
(***************************************************************************)
\* C4: once the cleanup of the hook's effect has called the two unsubscribe
\* handles, no callback that effect registered is invoked again: no listener of
\* a cleaned-up effect stays registered, and no delivery, of an event already
\* in flight or of a later change, reaches such a callback.
C4_NoCallbackAfterUnsubscribe ==
    /\ lateCalls = 0
    /\ \A l \in listeners : hookFid # NoFid /\ l.fid = hookFid /\ l.gen = effectGen

\* C4 witness: the hook has unmounted, the handles have returned, and a
\* snapshot event dispatched before that is still waiting to be delivered
C4_Witness ==
    /\ hookFid = NoFid
    /\ effectGen > 0
    /\ listeners = {}
    /\ pending # <<>>
    /\ store # {}

OwnedBy(docs, fid) == \A n \in docs : n.fournisseurId = fid

\* the reads of supplier fid return and count notifications of fid only
ReadsScoped(fid) ==
    /\ \A limitCount \in {1, DefaultLimit} :
          OwnedBy(Range(getNotificationsByFournisseur(fid, limitCount, Undefined)), fid)
    /\ \A term \in {<<>>, <<"paiement ">>}, type \in {Undefined, "all", "payment"} :
          OwnedBy(Range(searchNotifications(fid, term, type)), fid)
    /\ getUnreadCount(fid) = Cardinality(UnreadOf(store, fid))
    /\ getNotificationStats(fid).total
          = Cardinality({n \in store : n.fournisseurId = fid})
    /\ getNotificationStats(fid).unread = Cardinality(UnreadOf(store, fid))
    /\ \A t \in DOMAIN getNotificationStats(fid).byType :
          getNotificationStats(fid).byType[t]
             = Cardinality({n \in store : n.fournisseurId = fid /\ n.type = t})
    /\ getNotificationStats(fid).recent <= getNotificationStats(fid).total

\* the events of `queue` behind its first k carry what the listener's supplier
\* owns in `docs`
NewEventsScoped(queue, k, docs) ==
    \A i \in (k + 1)..Len(queue) :
        LET e == queue[i] IN
        IF e.kind = "list"
        THEN OwnedBy(Range(e.payload), e.fid) /\ Range(e.payload) \subseteq docs
        ELSE e.payload = Cardinality(UnreadOf(docs, e.fid))

\* C5: in every reachable store state getNotificationsByFournisseur,
\* searchNotifications, getUnreadCount and getNotificationStats for supplier S
\* return or count only notifications whose fournisseurId is S; every event
\* dispatched to a listener of S carries only S's notifications (or their unread
\* number), and the hook's callbacks are only ever passed events of the supplier
\* the hook is mounted with.
C5_ReadsScoped ==
    /\ [](\A fid \in Suppliers : ReadsScoped(fid))
    /\ [](\A i \in DOMAIN pending :
             pending[i].kind = "list" => OwnedBy(Range(pending[i].payload), pending[i].fid))
    /\ [][Len(pending') > Len(pending)
             => NewEventsScoped(pending', Len(pending), store')]_vars
    /\ [][(Deliver /\ hookState' # hookState) => Head(pending).fid = hookFid]_vars

\* C5 witness: both suppliers own notifications, and the hook mounted for S1
\* has been passed S1's list
C5_Witness ==
    /\ hookFid = "S1"
    /\ hookState.notifications # <<>>
    /\ hookState.unreadCount = 1
    /\ \E n \in store : n.fournisseurId = "S2"
    /\ \E n \in store : n.fournisseurId = "S1"

(***************************************************************************)
(* Claims about the sorted view (SpecView).                                *)
(***************************************************************************)
\* high before medium before low, and behind them what has no such priority
Tier(n) ==
    CASE n.priority = "high"   -> 1
      [] n.priority = "medium" -> 2
      [] n.priority = "low"    -> 3
      [] OTHER                 -> 4

\* C10: with sort key priority the displayed list is a permutation of the
\* filtered notifications, every high notification precedes every medium one,
\* every medium one every low one, and within a tier createdAt is descending
\* (a notification without one of the three priorities comes behind all of them).
C10_PrioritySort ==
    sortBy = "priority" =>
       LET in  == Filtered(notifications, searchTerm)
           out == filteredAndSortedNotifications
       IN  /\ Len(out) = Len(in)
           /\ \A n \in Range(in) :
                 Cardinality({i \in DOMAIN out : out[i] = n})
                    = Cardinality({i \in DOMAIN in : in[i] = n})
           /\ \A i, j \in DOMAIN out :
                 i < j =>
                    /\ Tier(out[i]) <= Tier(out[j])
                    /\ Tier(out[i]) = Tier(out[j])
                          => GetTime(out[i].createdAt) >= GetTime(out[j].createdAt)

\* C10 witness: three notifications of mixed priority with overlapping
\* timestamps, fetched in another order than the one displayed
C10_Witness ==
    /\ sortBy = "priority"
    /\ Len(filteredAndSortedNotifications) = 3
    /\ filteredAndSortedNotifications # notifications
    /\ \E i, j \in DOMAIN notifications :
          /\ notifications[i].priority = notifications[j].priority
          /\ notifications[i].createdAt # notifications[j].createdAt
    /\ \E i, j \in DOMAIN notifications :
          /\ notifications[i].priority # notifications[j].priority
          /\ notifications[i].createdAt = notifications[j].createdAt

(***************************************************************************)
(* Claims about the one-shot reads (SpecFactory: notifications of every    *)
(* factory, of both suppliers, with equal and different timestamps).       *)
(***************************************************************************)
\* t occurs in s when letter case is ignored
ContainsIgnoringCase(s, t) ==
    \E i \in 0..(Len(s) - Len(t)) :
        \A j \in 1..Len(t) : LowerFragment(s[i + j]) = LowerFragment(t[j])

\* the search terms and type arguments the reads are called with
SearchInputs ==
    {<<>>, <<"PAIEMENT ">>, <<"TEST CUSTOMER">>, <<"Le paiement de EUR">>,
     <<"recu", "! ">>, <<"absent">>}
TypeInputs == {Undefined, "", "all", "payment", "order", "system"}

\* what a search of supplier fid for term, with the type argument, is to return
Wanted(fid, term, type) ==
    {n \in store :
        /\ n.fournisseurId = fid
        /\ type \notin {Undefined, "", "all"} => n.type = type
        /\ \/ term = <<>>
           \/ ContainsIgnoringCase(n.title, term)
           \/ ContainsIgnoringCase(n.message, term)}

\* C11: searchNotifications(S, term, type) returns, each once, exactly the
\* notifications of S (of the given type when a type other than 'all' is passed;
\* an absent or empty type restricts nothing) whose title or message contains
\* term, letter case ignored; with an empty term it returns all of them.
C11_Search ==
    \A fid \in Suppliers, term \in SearchInputs, type \in TypeInputs :
        LET found == searchNotifications(fid, term, type) IN
        /\ Range(found) = Wanted(fid, term, type)
        /\ Len(found) = Cardinality(Range(found))
        /\ term = <<>> /\ type \in {Undefined, "all"}
              => Range(found) = {n \in store : n.fournisseurId = fid}

\* C11 witness: S1 has a payment and an order notification; an upper-case term
\* finds the payment one by its title alone, another finds the order one by its
\* message alone
C11_Witness ==
    /\ Cardinality({n \in store : n.fournisseurId = "S1"}) = 2
    /\ Len(searchNotifications("S1", <<"PAIEMENT ">>, "all")) = 1
    /\ \E n \in Range(searchNotifications("S1", <<"PAIEMENT ">>, "all")) :
          ~ContainsIgnoringCase(n.message, <<"PAIEMENT ">>)
    /\ Len(searchNotifications("S1", <<"TEST CUSTOMER">>, "order")) = 1
    /\ \E n \in Range(searchNotifications("S1", <<"TEST CUSTOMER">>, "order")) :
          ~ContainsIgnoringCase(n.title, <<"TEST CUSTOMER">>)


(***************************************************************************)
(* Claims about the list read and its pages (Spec).                        *)
(***************************************************************************)
\* the limits the list read is called with
LimitInputs == {1, 2, DefaultLimit}

\* a comes after b in the newest-first order: older, or as old with the smaller id
ComesAfter(a, b) ==
    \/ GetTime(a.createdAt) < GetTime(b.createdAt)
    \/ GetTime(a.createdAt) = GetTime(b.createdAt) /\ a.id < b.id

\* C12: getNotificationsByFournisseur(S, limit) returns at most limit
\* notifications, all of S and each once: the newest ones of S, ordered by
\* createdAt descending, notifications of one timestamp in the fixed order of
\* their ids.
C12_NewestFirst ==
    \A fid \in Suppliers, limitCount \in LimitInputs :
        LET page == getNotificationsByFournisseur(fid, limitCount, Undefined)
            mine == {n \in store : n.fournisseurId = fid}
        IN  /\ Len(page) <= limitCount
            /\ Len(page) = IF Cardinality(mine) < limitCount
                           THEN Cardinality(mine) ELSE limitCount
            /\ Range(page) \subseteq mine
            /\ \A i, j \in DOMAIN page : i < j => ComesAfter(page[j], page[i])
            /\ \A n \in mine \ Range(page) : \A i \in DOMAIN page : ComesAfter(n, page[i])

\* C12 witness: S1 has two notifications of different timestamps, the newer one
\* with the smaller id, and a page of one holds the newer one alone
C12_Witness ==
    \E a, b \in store :
        /\ a.fournisseurId = "S1" /\ b.fournisseurId = "S1"
        /\ GetTime(a.createdAt) > GetTime(b.createdAt)
        /\ a.id < b.id
        /\ getNotificationsByFournisseur("S1", 1, Undefined) = <<a>>
        /\ getNotificationsByFournisseur("S1", 2, Undefined) = <<a, b>>

\* C13 as stated: a call of getNotificationsByFournisseur that passes the id of
\* the last notification of the previous page returns the next page: only
\* notifications that come after that one in the newest-first order, so two
\* successive pages share no entry.
C13_Pagination ==
    \A fid \in Suppliers, limitCount \in LimitInputs :
        LET first == getNotificationsByFournisseur(fid, limitCount, Undefined) IN
        first # <<>> =>
           LET cursor == first[Len(first)]
               next   == getNotificationsByFournisseur(fid, limitCount, cursor.id)
           IN  /\ \A n \in Range(next) : ComesAfter(n, cursor)
               /\ Range(next) \cap Range(first) = {}


(***************************************************************************)
(* Claims about what the list listener is passed (SpecHook).               *)
(***************************************************************************)
\* the list event e carries the whole newest-first list of its supplier in docs
FullList(e, docs) ==
    LET mine == {n \in docs : n.fournisseurId = e.fid} IN
    /\ Len(e.payload) <= SubscriptionLimit
    /\ Range(e.payload) \subseteq mine
    /\ Len(e.payload) = IF Cardinality(mine) < SubscriptionLimit
                        THEN Cardinality(mine) ELSE SubscriptionLimit
    /\ Cardinality(Range(e.payload)) = Len(e.payload)
    /\ \A i, j \in DOMAIN e.payload : i < j => ComesAfter(e.payload[j], e.payload[i])
    /\ \A n \in mine \ Range(e.payload) :
          \A i \in DOMAIN e.payload : ComesAfter(n, e.payload[i])

MarkedRead(n) == n.isRead /\ "readAt" \in DOMAIN n /\ n.readAt # NoDate

\* C15: once a notification's isRead is true it stays true, and its readAt stays
\* a timestamp (never an earlier one), through every markAsRead,
\* markMultipleAsRead, markAllAsRead, creation, deletion and cleanup step, for
\* as long as the notification exists; a deleted notification's id is not used
\* again.
C15_ReadMonotonic ==
    /\ [](\A n \in store : n.isRead => MarkedRead(n))
    /\ [][\A n \in store : \A m \in store' :
             (m.id = n.id /\ n.isRead) =>
                /\ MarkedRead(m)
                /\ GetTime(m.readAt) >= GetTime(n.readAt)]_vars
    /\ [][\A id \in usedIds : ~Exists(store, id) => ~Exists(store', id)]_vars

\* C15 witness: a markAllAsRead call has resolved for a supplier one of whose
\* notifications had been marked read before, at an earlier time, and is still
\* read with that time, next to one the call has just marked
C15_Witness ==
    \E fid \in Suppliers :
        /\ last = Settled("markAllAsRead", fid, TRUE)
        /\ \E n, m \in store :
              /\ n.fournisseurId = fid /\ m.fournisseurId = fid
              /\ MarkedRead(n) /\ GetTime(n.readAt) < now
              /\ MarkedRead(m) /\ GetTime(m.readAt) = now

\* the fields a mark-read operation may write
ReadFields == {"isRead", "readAt"}

\* C16: a step that changes a stored notification (markAsRead,
\* markMultipleAsRead, markAllAsRead) changes its isRead and readAt only: every
\* other field, fournisseurId, type, title, message and createdAt among them,
\* keeps the value it was created with and no field is added or removed, so a
\* notification stays with its supplier.
C16_FrameOfMarkRead ==
    [][\A n \in store : \A m \in store' :
          m.id = n.id =>
             /\ DOMAIN m \ ReadFields = DOMAIN n \ ReadFields
             /\ \A f \in DOMAIN n \ ReadFields : m[f] = n[f]
             /\ m # n => m.isRead /\ m.readAt = ToISOString(now)]_vars

\* C16 witness: a notification of S1 created at an earlier time has been marked
\* read by the call that settled last and still has its supplier, type, title,
\* message and creation time
C16_Witness ==
    /\ last.op \in {"markAsRead", "markMultipleAsRead"} /\ last.ok
    /\ \E n \in store :
          /\ n.isRead /\ n.readAt = ToISOString(now)
          /\ GetTime(n.createdAt) < now
          /\ n.fournisseurId = "S1" /\ n.type = "payment"
          /\ n.title = PaymentText(OrderOf("S1"), "failed").title
          /\ n.message = PaymentText(OrderOf("S1"), "failed").message


(***************************************************************************)
(* Claims about the email dispatcher (SpecEmail).                          *)
(***************************************************************************)
\* the calls made by the step: those of calls' behind the ones of calls
NewCalls == {calls'[c] : c \in (Len(calls) + 1)..Len(calls')}

\* C17: once initialize() has succeeded the dispatcher stays initialized and no
\* later step, a further initialize() included, calls emailjs.init again; an
\* initialize() whose emailjs.init throws leaves the dispatcher un-initialized,
\* one whose emailjs.init returns initializes it; and while the dispatcher is
\* un-initialized every sendOrderNotification call returns false and emailjs.send
\* is not called.
C17_InitializeIdempotent ==
    /\ [][isInitialized => isInitialized' /\ initCalls' = initCalls]_vars
    /\ [][\A initThrows \in BOOLEAN :
             (initialize(initThrows) /\ ~isInitialized)
                => initCalls' = initCalls + 1 /\ isInitialized' = ~initThrows]_vars
    /\ [][~isInitialized =>
             /\ sends' = sends
             /\ \A c \in NewCalls : c.result = "false" /\ c.send = 0]_vars
    /\ [](~isInitialized => sends = <<>> /\ \A c \in DOMAIN calls : calls[c].result = "false")

\* C17 witness: initialize() was called three times, emailjs.init twice (it
\* threw, then returned); an order sent before the dispatcher was initialized
\* got false without a provider call, the same order sent afterwards was
\* handed to the provider
C17_Witness ==
    /\ isInitialized
    /\ initializeCalls = 3
    /\ initCalls = 2
    /\ Len(calls) = 2
    /\ calls[1].order = calls[2].order
    /\ calls[1].result = "false" /\ calls[1].send = 0
    /\ calls[2].send = 1
    /\ Len(sends) = 1

\* the status has no entry in the template table
NoTemplate(status) == status \notin OrderStatuses

\* C18: on an initialized dispatcher a sendOrderNotification(order) call, on its
\* own or within a bulk, whose order.status has no template returns false and
\* makes no emailjs.send call.
C18_NoTemplate ==
    [][isInitialized =>
          /\ \A c \in NewCalls :
                NoTemplate(c.order.status) => c.result = "false" /\ c.send = 0
          /\ Len(sends') - Len(sends)
                = Cardinality({k \in (Len(calls) + 1)..Len(calls') : calls'[k].send # 0})
          /\ \A k \in (Len(sends) + 1)..Len(sends') :
                ~NoTemplate(sends'[k].params.status)]_vars

\* C18 witness: the initialized dispatcher was called with a status found
\* nowhere and with one found on Object.prototype; both calls returned false
\* and emailjs.send was never called
C18_Witness ==
    /\ isInitialized
    /\ sends = <<>>
    /\ \E c \in DOMAIN calls :
          calls[c].order.status = "archived" /\ calls[c].result = "false"
    /\ \E c \in DOMAIN calls :
          calls[c].order.status = "constructor" /\ calls[c].result = "false"

\* the emailjs.send call made for call c was made and resolved
OwnSendSucceeded(c) == calls[c].send # 0 /\ sends[calls[c].send].state = "resolved"

\* C19: sendBulkOrderNotifications(orders) makes one sendOrderNotification call
\* per order, in input order, and returns one boolean per order in that order:
\* true exactly when the order's own emailjs.send was made and resolved,
\* whatever became of the other orders' sends and in whatever order the sends
\* settled.
C19_BulkResults ==
    /\ [][\A orders \in BulkInputs :
             sendBulkOrderNotifications(orders) =>
                /\ Len(calls') = Len(calls) + Len(orders)
                /\ \A i \in DOMAIN orders : calls'[Len(calls) + i].order = orders[i]
                /\ bulk'.ids = [i \in DOMAIN orders |-> Len(calls) + i]]_vars
    /\ [](bulk.state = "returned" =>
             /\ DOMAIN bulk.results = DOMAIN bulk.ids
             /\ \A i \in DOMAIN bulk.ids :
                   bulk.results[i] = OwnSendSucceeded(bulk.ids[i]))
    /\ [][bulk.state = "returned" => bulk' = bulk]_vars

\* C19 witness: a bulk of two orders has returned false for the first, whose
\* send was rejected, and true for the second, whose send resolved
C19_Witness ==
    /\ bulk.state = "returned"
    /\ Len(bulk.ids) = 2
    /\ bulk.results = <<FALSE, TRUE>>
    /\ calls[bulk.ids[1]].send # 0
    /\ calls[bulk.ids[2]].send # 0
    /\ sends[calls[bulk.ids[1]].send].state = "rejected"
    /\ sends[calls[bulk.ids[2]].send].state = "resolved"

\* C20: no sendOrderNotification call ever rejects: a call made while the
\* dispatcher is un-initialized, one whose status has no template, one that
\* throws while building the email and one whose emailjs.send is rejected all
\* resolve to false, and a call resolves to true only when its emailjs.send
\* resolved.
C20_NeverRejects ==
    \A c \in DOMAIN calls :
        /\ calls[c].result \in {"pending", "true", "false"}
        /\ calls[c].result = "true" <=> OwnSendSucceeded(c)
        /\ calls[c].send = 0 => calls[c].result = "false"
        /\ (calls[c].send # 0 /\ sends[calls[c].send].state = "rejected")
              => calls[c].result = "false"
        /\ calls[c].result = "pending"
              <=> (calls[c].send # 0 /\ sends[calls[c].send].state = "pending")

\* C20 witness: on the initialized dispatcher one call resolved to false after
\* its emailjs.send was rejected, another because building the email threw (the
\* order has no delivery address)
C20_Witness ==
    /\ isInitialized
    /\ \E c \in DOMAIN calls :
          /\ calls[c].send # 0
          /\ sends[calls[c].send].state = "rejected"
          /\ calls[c].result = "false"
    /\ \E c \in DOMAIN calls :
          /\ "deliveryAddress" \notin DOMAIN calls[c].order
          /\ calls[c].result = "false"


(***************************************************************************)
(* Claims about what the factories store (SpecFactory, all five factory    *)
(* operations).                                                            *)
(***************************************************************************)
\* the step is a factory call that targets supplier fid
FactoryCallFor(fid) ==
    \/ \E o \in Orders :
          /\ o.fournisseurId = fid
          /\ \/ createSupplierOrderNotification(o)
             \/ \E new \in PaymentStatusInputs :
                   createSupplierPaymentNotification(o, "pending", new)
             \/ \E new \in OrderStatusInputs :
                   createSupplierOrderStatusNotification(o, "pending", new)
    \/ \E data \in SystemDataInputs, ignoreUndefinedProperties \in BOOLEAN :
          createSystemNotification(fid, SystemTitle, SystemMessage, data,
                                   ignoreUndefinedProperties)
    \/ \E productId \in ProductIdInputs, data \in ProductDataInputs,
          ignoreUndefinedProperties \in BOOLEAN :
          createProductNotification(fid, ProductTitle, ProductMessage, productId, data,
                                    ignoreUndefinedProperties)

\* the step is a factory call that is to store nothing: a payment transition to
\* an unknown status, or a call the store rejected
StoresNothing ==
    \/ ~last'.ok
    \/ /\ last'.op = "createSupplierPaymentNotification"
       /\ \A o \in Orders, new \in KnownPaymentStatuses :
             ~createSupplierPaymentNotification(o, "pending", new)

\* C28: every notification a factory operation creates
\* (createSupplierOrderNotification, createSupplierPaymentNotification with a
\* known status, createSupplierOrderStatusNotification, createSystemNotification,
\* createProductNotification) is stored with isRead false and the fournisseurId
\* of the targeted supplier; a call that resolves stores exactly one, which
\* raises getUnreadCount of that supplier by 1 and of no other supplier.
C28_FactoryUnread ==
    [][\A fid \in Suppliers :
          FactoryCallFor(fid) =>
             /\ store \subseteq store'
             /\ \A d \in store' \ store : ~d.isRead /\ d.fournisseurId = fid
             /\ Cardinality(store' \ store) = IF StoresNothing THEN 0 ELSE 1
             /\ \A other \in Suppliers :
                   (getUnreadCount(other))' =
                      getUnreadCount(other)
                        + (IF other = fid /\ ~StoresNothing THEN 1 ELSE 0)]_vars

\* C28 witness: a system notification of S1 and a product notification of S2
\* are stored, each unread, and each supplier's unread count is 1
C28_Witness ==
    /\ \E d \in store : d.type = "system" /\ d.fournisseurId = "S1" /\ ~d.isRead
    /\ \E d \in store : d.type = "product" /\ d.fournisseurId = "S2" /\ ~d.isRead
    /\ getUnreadCount("S1") = 1
    /\ getUnreadCount("S2") = 1


(***************************************************************************)
(* Claims about the retention sweep and the operations addressed to one    *)
(* supplier (Spec).                                                        *)
(***************************************************************************)
\* the notifications of supplier fid in docs that are older than the cutoff
OldOf(docs, fid, cutoffDate) ==
    {n \in docs : n.fournisseurId = fid /\ IsBeforeCutoff(n.createdAt, cutoffDate)}

\* what every cleanupOldNotifications call that resolves has done: it deleted the
\* documents of its query and nothing else, all of them notifications of its
\* supplier older than the cutoff; none such is left, and every notification of
\* the supplier at or after the cutoff is kept
CleanupDeletesOld ==
    cleanupOldNotificationsCommit =>
       /\ store' = {n \in store : n.id \notin inflight.ids}
       /\ store \ store' \subseteq OldOf(store, inflight.fid, inflight.cutoffDate)
       /\ OldOf(store', inflight.fid, inflight.cutoffDate) = {}
       /\ \A n \in store :
             (n.fournisseurId = inflight.fid
                /\ ~IsBeforeCutoff(n.createdAt, inflight.cutoffDate)) => n \in store'

\* C29 as stated: cleanupOldNotifications(S, daysOld) deletes exactly the
\* notifications of S created before the cutoff, keeps every notification of S
\* at or after it, and returns the number of notifications it deleted.
C29_Original ==
    [][/\ CleanupDeletesOld
       /\ cleanupOldNotificationsCommit
             => last'.value = Cardinality(store \ store')]_vars

\* C29 amended: a cleanupOldNotifications(S, daysOld) call that resolves has
\* deleted exactly the notifications of S created before the cutoff that were
\* still stored, and kept every notification of S at or after it; it returns the
\* number of notifications its query found, which is the number it deleted
\* unless another call deleted one of them between the query and the commit.
C29_Cleanup ==
    [][/\ CleanupDeletesOld
       /\ cleanupOldNotificationsCommit =>
             /\ last'.value = Cardinality(inflight.ids)
             /\ last'.value >= Cardinality(store \ store')
             /\ (\A id \in inflight.ids : Exists(store, id))
                   => last'.value = Cardinality(store \ store')]_vars

\* C29 witness: a cleanup of a supplier with daysOld 0 returned 1; the
\* notification of that supplier created at the cutoff itself is still stored
C29_Witness ==
    /\ last.op = "cleanupOldNotifications"
    /\ last.value = 1
    /\ Cardinality(usedIds) = 2
    /\ \E n \in store : n.fournisseurId = last.fid /\ GetTime(n.createdAt) = now

\* the notifications in docs that supplier fid does not own
OthersOf(docs, fid) == {n \in docs : n.fournisseurId # fid}

\* C30: markAllAsRead(S) and cleanupOldNotifications(S, d) never modify or
\* delete a notification of another supplier: their queries return ids of S's
\* notifications only, and their commits leave every other supplier's
\* notifications as they are, whatever creations, deletions and mark-read calls
\* for other suppliers come between query and commit.
C30_OtherSuppliersUntouched ==
    /\ [](inflight # None =>
            \A n \in store : n.id \in inflight.ids => n.fournisseurId = inflight.fid)
    /\ [][(markAllAsReadCommit \/ cleanupOldNotificationsCommit)
            => OthersOf(store', inflight.fid) = OthersOf(store, inflight.fid)]_vars
    /\ [][\A fid \in Suppliers, daysOld \in DaysOldInputs :
            (markAllAsReadQuery(fid) \/ cleanupOldNotificationsQuery(fid, daysOld))
               => store' = store]_vars

\* C30 witness: a cleanup of S1 has deleted a notification, and an unread
\* notification of S2 that is just as old is still stored
C30_Witness ==
    /\ last.op = "cleanupOldNotifications"
    /\ last.fid = "S1"
    /\ last.value = 1
    /\ store # {}
    /\ \A n \in store :
          n.fournisseurId = "S2" /\ ~n.isRead /\ GetTime(n.createdAt) < now


(***************************************************************************)
(* Claims about the browser notifications (SpecNotify).                    *)
(***************************************************************************)
\* the browser notifications the step constructs
NewlyShown == SubSeq(shown', Len(shown) + 1, Len(shown'))

\* C21: a browser notification is constructed only when a list update is
\* delivered to the hook, and then only for a notification of that list that is
\* unread and was created less than 10 seconds before the delivery, and only
\* while the permission is granted (then for each such notification); while the
\* permission is not granted a delivery constructs none, no later step makes up
\* for it, and the delivery leaves the hook's error as it is.
C21_BrowserNotification ==
    [][/\ shown' # shown => (Deliver /\ Head(pending).kind = "list")
       /\ Len(shown') >= Len(shown) /\ SubSeq(shown', 1, Len(shown)) = shown
       /\ Deliver =>
             /\ error' = error
             /\ permission # "granted" => shown' = shown
             /\ \A k \in DOMAIN NewlyShown :
                   /\ permission = "granted"
                   /\ \E n \in Range(Head(pending).payload) :
                         /\ n.id = NewlyShown[k].tag
                         /\ ~n.isRead
                         /\ now - GetTime(n.createdAt) < RecentWindowMs
             /\ (permission = "granted" /\ Head(pending).kind = "list") =>
                   \A n \in Range(Head(pending).payload) :
                       (~n.isRead /\ now - GetTime(n.createdAt) < RecentWindowMs)
                          => \E k \in DOMAIN NewlyShown : NewlyShown[k].tag = n.id]_vars

\* C21 witness: the hook holds two unread notifications of S1; the older one
\* was delivered before the permission was granted and is 10 seconds old by now,
\* and the only browser notification constructed is for the new one
C21_Witness ==
    /\ permission = "granted"
    /\ pending = <<>>
    /\ Len(shown) = 1
    /\ \E n \in Range(hookState.notifications) :
          ~n.isRead /\ now - GetTime(n.createdAt) >= RecentWindowMs
    /\ \E n \in Range(hookState.notifications) :
          ~n.isRead /\ n.id = shown[1].tag /\ GetTime(n.createdAt) = now

\* C27 as stated: over the life of one subscription a browser notification is
\* constructed at most once for any notification id, however many list updates
\* the subscription delivers.
C27_AnnouncedOnce ==
    \A i, j \in DOMAIN shown :
        (shown[i].tag = shown[j].tag /\ shown[i].gen = shown[j].gen) => i = j

(***************************************************************************)
(* Claims about the hook's operations and fetches (SpecOps, SpecFetch).    *)
(***************************************************************************)
\* C24: the hook changes its local state only after the store confirms.  A
\* call of markAsRead, markMultipleAsRead, markAllAsRead or deleteNotification
\* leaves notifications and unreadCount as they are up to its await; when the
\* store rejected it, its continuation leaves them exactly as they are, sets
\* the error string to the operation's generic message, and the promise the
\* caller holds resolves.  Only a confirmed operation's continuation or a
\* listener callback changes the local state.
C24_RejectedLeavesState ==
    [][/\ \A a \in awaits :
            (OpResumes(a) /\ a.live /\ ~a.ok) =>
                /\ hookState' = hookState
                /\ error' = ErrorMessage(a.op)
                /\ error' # Null
                /\ settled' = "resolved"
       /\ hookState' # hookState =>
            \/ Deliver
            \/ \E a \in awaits : OpResumes(a) /\ a.ok]_vars

\* C24 witness: markAllAsRead was rejected while the hook showed an unread
\* notification: the notification is still unread in the list, the count is
\* still 1, the error is markAllAsRead's message and the call has resolved
C24_Witness ==
    /\ awaits = {}
    /\ pending = <<>>
    /\ settled = "resolved"
    /\ error = ErrorMessage("markAllAsRead")
    /\ hookState.unreadCount = 1
    /\ \E n \in Range(hookState.notifications) : ~n.isRead
    /\ hookState.unreadCount = getUnreadCount(hookFid)

\* C22 as stated: an error string stays set until clearError or a successful
\* hook operation clears it, and the continuation of every successful hook
\* operation (fetch, markAsRead, markMultipleAsRead, markAllAsRead,
\* deleteNotification) leaves the error null.
C22_ErrorCleared ==
    [][/\ (error # Null /\ error' = Null) =>
            \/ clearError
            \/ \E a \in awaits : (OpResumes(a) \/ FetchResumes(a)) /\ a.ok
       /\ \A a \in awaits :
            ((OpResumes(a) \/ FetchResumes(a)) /\ a.live /\ a.ok) => error' = Null]_vars

\* no hook operation or fetch is awaited, no change event is undelivered and
\* no service call is between its query and its commit
Quiescent == awaits = {} /\ pending = <<>> /\ inflight = None

\* C25 as stated: at quiescence the unreadCount of a hook mounted for S is the
\* number of unread notifications of S in the store, and it is never negative.
C25_UnreadCountAtQuiescence ==
    /\ hookState.unreadCount >= 0
    /\ (Quiescent /\ hookFid # NoFid) => hookState.unreadCount = getUnreadCount(hookFid)

\* C23 as stated: the continuation of a fetch whose hook has unmounted, or has
\* moved to another supplier than the one fetched, leaves notifications,
\* unreadCount, loading and error as they are.
C23_LateFetchDiscarded ==
    [][\A a \in awaits :
          (FetchResumes(a) /\ (~a.live \/ a.fid # hookFid)) =>
              /\ hookState' = hookState
              /\ loading' = loading
              /\ error' = error]_vars

\* C26 as stated: at quiescence, with the list subscription of S registered,
\* the hook's notifications are the store's newest-first list of S's 50 most
\* recent notifications.
C26_ListAtQuiescence ==
    (/\ Quiescent
     /\ hookFid # NoFid
     /\ subscribeToNotifications(hookFid, effectGen) \in listeners)
        => hookState.notifications = ListQuery(store, hookFid, SubscriptionLimit)

====
